---- MODULE Spec2Model ----
(***************************************************************************)
(* CellPick: the shape-selection state of AppStateManager                  *)
(* (src/cellpick/app/components.py) and the k-center selection engine it   *)
(* calls (cellpick.app.algorithms).                                        *)
(*                                                                         *)
(* Conventions.                                                            *)
(*  - A point is <<x, y>> with integer coordinates; a polygon is a         *)
(*    sequence of points.  A position that need not be integral (a         *)
(*    centroid, a click) is <<sx, sy, c>> and denotes (sx/c, sy/c), c > 0. *)
(*  - Distances are kept exactly, as the SQUARE of the Euclidean distance, *)
(*    a rational <<num, den>>.  Squaring is monotone on distances, so      *)
(*    every comparison the code makes (argmax, min, "< 2.0") is decided    *)
(*    the same way on the squares.  <<1, 0>> is +infinity.                 *)
(*  - Shape indices and selection indices are 0-based, as in the code;     *)
(*    TLA+ sequences are 1-based, so shapes[i + 1] is the code's shapes[i].*)
(***************************************************************************)
EXTENDS Integers, Sequences, FiniteSets, TLC

(***************************************************************************)
(* Bounds of the model.                                                    *)
(***************************************************************************)
\* largest value entered in the k spin box
MaxK == 3
\* most active regions held at once
MaxAR == 2
\* most manual add/delete clicks between two rebuilds of active_shape_ids
MaxEdits == 1
\* most image channels loaded at once
MaxChannels == 1

(***************************************************************************)
(* Sequence helpers.                                                       *)
(***************************************************************************)
Range(s) == {s[i] : i \in DOMAIN s}

NoDup(s) == \A i, j \in DOMAIN s : i # j => s[i] # s[j]

\* list.pop(i), i 0-based
Pop(s, i) == [j \in 1..(Len(s) - 1) |-> IF j <= i THEN s[j] ELSE s[j + 1]]

RECURSIVE Concat(_)
\* the concatenation of a sequence of sequences
Concat(ss) == IF ss = <<>> THEN <<>> ELSE Head(ss) \o Concat(Tail(ss))

\* the subsequence of s whose members satisfy membership in S
Restrict(s, S) == SelectSeq(s, LAMBDA x : x \in S)

\* the ascending sequence of the members of a finite set of integers
RECURSIVE SortedSeq(_)
SortedSeq(S) ==
    IF S = {} THEN <<>>
    ELSE LET m == CHOOSE x \in S : \A y \in S : x <= y
         IN <<m>> \o SortedSeq(S \ {m})

(***************************************************************************)
(* Exact rationals for squared distances.                                  *)
(***************************************************************************)
Infinity == <<1, 0>>

LessQ(a, b) == a[1] * b[2] < b[1] * a[2]

EqQ(a, b) == ~LessQ(a, b) /\ ~LessQ(b, a)

MinQ(a, b) == IF LessQ(b, a) THEN b ELSE a

RECURSIVE MinOfSeq(_)
\* min() of a sequence of rationals, +infinity when it is empty
MinOfSeq(s) == IF s = <<>> THEN Infinity ELSE MinQ(Head(s), MinOfSeq(Tail(s)))

Sq(x) == x * x

(***************************************************************************)
(* Geometry primitives (spec 4.1).                                         *)
(***************************************************************************)
\* squared distance from point p to the segment [a, b]: project, clamp the
\* parameter to [0, 1], measure to the clamped point; a = b falls back to
\* the point-to-point distance
point_segment_distance(p, a, b) ==
    LET dx == b[1] - a[1]
        dy == b[2] - a[2]
        L  == Sq(dx) + Sq(dy)
        t  == (p[1] - a[1]) * dx + (p[2] - a[2]) * dy
        pa == Sq(p[1] - a[1]) + Sq(p[2] - a[2])
        pb == Sq(p[1] - b[1]) + Sq(p[2] - b[2])
    IN  IF L = 0 THEN <<pa, 1>>
        ELSE IF t <= 0 THEN <<pa, 1>>
        ELSE IF t >= L THEN <<pb, 1>>
        ELSE <<pa * L - Sq(t), L>>

\* minimum over all edges, the last one wrapping to the first vertex
point_polygon_distance(p, polygon) ==
    MinOfSeq([i \in 1..Len(polygon) |->
                point_segment_distance(p, polygon[i],
                                       polygon[(i % Len(polygon)) + 1])])

\* the vertex-to-polygon minimum of the first polygon only, not symmetrized
polygon_polygon_distance_one_sided(poly_a, poly_b) ==
    MinOfSeq([i \in 1..Len(poly_a) |-> point_polygon_distance(poly_a[i], poly_b)])

\* vertex-to-polygon minimum, symmetrized
polygon_polygon_distance(poly_a, poly_b) ==
    MinQ(MinOfSeq([i \in 1..Len(poly_a) |-> point_polygon_distance(poly_a[i], poly_b)]),
         MinOfSeq([i \in 1..Len(poly_b) |-> point_polygon_distance(poly_b[i], poly_a)]))

(***************************************************************************)
(* Positions, centroids and Qt's point-in-polygon test.                    *)
(***************************************************************************)
\* Polygon.centroid: the mean of the vertices, (0, 0) for no vertices
centroid(points) ==
    IF points = <<>> THEN <<0, 0, 1>>
    ELSE LET sum_x == LET RECURSIVE S(_)
                          S(i) == IF i = 0 THEN 0 ELSE points[i][1] + S(i - 1)
                      IN S(Len(points))
             sum_y == LET RECURSIVE S(_)
                          S(i) == IF i = 0 THEN 0 ELSE points[i][2] + S(i - 1)
                      IN S(Len(points))
         IN <<sum_x, sum_y, Len(points)>>

\* does the edge p1 -> p2 count for a horizontal ray from pos (Qt's
\* qt_polygon_isect_line: horizontal edges are ignored, an edge counts when
\* y1 <= y < y2 and the crossing lies at or left of pos)
EdgeCounts(p1, p2, pos) ==
    LET lo == IF p2[2] < p1[2] THEN p2 ELSE p1
        hi == IF p2[2] < p1[2] THEN p1 ELSE p2
        c  == pos[3]
    IN  /\ p1[2] # p2[2]
        /\ pos[2] >= lo[2] * c
        /\ pos[2] < hi[2] * c
        /\ lo[1] * c * (hi[2] - lo[2]) + (hi[1] - lo[1]) * (pos[2] - lo[2] * c)
              <= pos[1] * (hi[2] - lo[2])

\* QPolygonF(points).containsPoint(pos, Qt.OddEvenFill): the polygon is
\* closed implicitly, and pos is inside when an odd number of edges count
containsPoint(points, pos) ==
    /\ points # <<>>
    /\ Cardinality({i \in 1..Len(points) :
                      EdgeCounts(points[i], points[(i % Len(points)) + 1], pos)}) % 2 = 1

(***************************************************************************)
(* The data a run can load: shape layouts and the regions a user draws.    *)
(***************************************************************************)
Square(x, y) == <<<<x, y>>, <<x + 1, y>>, <<x + 1, y + 1>>, <<x, y + 1>>>>

Rect(x0, y0, x1, y1) == <<<<x0, y0>>, <<x1, y0>>, <<x1, y1>>, <<x0, y1>>>>

\* five unit squares on a line (spec 8, scenario 1)
LineLayout == <<Square(0, 0), Square(10, 0), Square(20, 0), Square(30, 0), Square(40, 0)>>

\* two touching squares, two candidates at equal distance from the first, a triangle
GridLayout ==
    <<Square(0, 0), Square(1, 0), Square(0, 20), Square(20, 0),
      <<<<20, 20>>, <<22, 20>>, <<20, 22>>>>>>

ShapeLayouts == {LineLayout, GridLayout}

\* the polygons a user draws as active regions: one over the left shapes, one
\* over the right shapes; they overlap on a shape
RegionLib ==
    {<<<<-5, -5>>, <<27, -5>>, <<-5, 40>>>>,
     <<<<15, -5>>, <<50, -5>>, <<15, 60>>>>}

\* every polygon a shape list can hold
PolyPool == UNION {Range(l) : l \in ShapeLayouts}

\* the distance oracle (spec 4.2), as the matrix of all pairwise polygon distances
DistanceMatrix == [a \in PolyPool, b \in PolyPool |-> polygon_polygon_distance(a, b)]

(***************************************************************************)
(* The selection engine (cellpick.app.algorithms; spec 4.2 - 4.5).         *)
(* Polygon lists are sequences; the indices returned are 0-based.          *)
(***************************************************************************)
\* distance of polygons[candidate] to the nearest polygon already selected,
\* +infinity when nothing is selected yet
min_dist_to_set(candidate, selected_indices, polygons) ==
    MinOfSeq([j \in 1..Len(selected_indices) |->
                DistanceMatrix[polygons[candidate + 1],
                               polygons[selected_indices[j] + 1]]])

\* steps 4a - 4c: the unchosen candidate farthest from the chosen ones, the
\* lowest index among those that tie
farthest_candidate(chosen, polygons) ==
    LET unchosen == (0..(Len(polygons) - 1)) \ Range(chosen)
        d(i) == min_dist_to_set(i, chosen, polygons)
    IN  CHOOSE i \in unchosen :
            \A j \in unchosen : /\ ~LessQ(d(i), d(j))
                                /\ EqQ(d(i), d(j)) => i <= j

RECURSIVE greedy_farthest_point(_, _, _)
\* step 4: repeat until k indices are chosen; step 5: selection order
greedy_farthest_point(chosen, polygons, k) ==
    IF Len(chosen) >= k THEN chosen
    ELSE greedy_farthest_point(Append(chosen, farthest_candidate(chosen, polygons)),
                               polygons, k)

\* select_k_center, steps 1 - 5
select_k_center(candidates, k) ==
    IF k >= Len(candidates) THEN [i \in 1..Len(candidates) |-> i - 1]
    ELSE IF k <= 0 THEN <<>>
    ELSE greedy_farthest_point(<<0>>, candidates, k)

\* the inputs select_k_center rejects: no candidates with k > 0, a negative k
InvalidInput(candidates, k) == (candidates = <<>> /\ k > 0) \/ k < 0

\* the polygon entry point of select_k_center
polygon_gonzalez(polygons, k) == select_k_center(polygons, k)

\* select_k_per_group: every group subsampled on its own, in its own index space
polygon_round_robin_gonzalez(groups, k) ==
    [g \in 1..Len(groups) |-> select_k_center(groups[g], k)]

\* min_pairwise_distance: the minimum over all unordered pairs of positions,
\* +infinity for fewer than two polygons
polygon_mindist(polygons) ==
    LET pairs == {p \in (1..Len(polygons)) \X (1..Len(polygons)) : p[1] < p[2]}
    IN  IF pairs = {} THEN Infinity
        ELSE LET best == CHOOSE p \in pairs : \A q \in pairs :
                            ~LessQ(DistanceMatrix[polygons[q[1]], polygons[q[2]]],
                                   DistanceMatrix[polygons[p[1]], polygons[p[2]]])
             IN DistanceMatrix[polygons[best[1]], polygons[best[2]]]

\* sorted(labels.keys()) for the labels "a" < "b" < "c"
LabelOrder == <<"a", "b", "c">>

SortedLabels(S) == SelectSeq(LabelOrder, LAMBDA l : l \in S)

\* the label tables a user loads (labels_dict: shape index -> label); a table
\* need not cover every shape
LabelDicts ==
    {(0 :> "a") @@ (1 :> "a") @@ (2 :> "b") @@ (3 :> "b")}

\* the scene positions a user right-clicks: inside the square at the origin,
\* which only the left region holds, and inside the square both regions hold
Clicks == {centroid(Square(0, 0)), centroid(Square(20, 0))}

\* containsPoint for the polygons above, at the clicks and at the shapes'
\* centroids, evaluated once
Inside ==
    [poly \in RegionLib \cup PolyPool, pos \in Clicks \cup {centroid(p) : p \in PolyPool} |->
        containsPoint(poly, pos)]

(***************************************************************************)
(* State of AppStateManager and of the widgets select_shapes reads.        *)
(***************************************************************************)
VARIABLES
    state,               \* AppStateManager.state, an AppState
    shapes,              \* AppStateManager.shapes: the polygons' point lists
    active_regions,      \* AppStateManager.active_regions
    current_ar_points,   \* AppStateManager.current_ar_points
    active_shape_ids,    \* AppStateManager.active_shape_ids
    selected_shape_ids,  \* AppStateManager.selected_shape_ids
    shared,              \* TRUE when the two id lists are one and the same list object
    cell_labels,         \* AppStateManager.cell_labels: <<>> for None, else <<dict>>
    label_checkboxes,    \* ActionPage.label_checkboxes: its keys, in insertion order
    clustering_count,    \* ActionPage.clustering_type.count()
    edits,               \* manual add/delete clicks since active_shape_ids was rebuilt
    call,                \* the locals and message boxes of the select_shapes call just made
    polygons,            \* the two polygons handed to polygon_polygon_distance
    measured,            \* what polygon_polygon_distance returned: <<>> before the call
    data_load_mode,      \* AppStateManager.data_load_mode, a DataLoadMode
    channels,            \* len(MainWindow.channels)
    loaded_spatialdata,  \* MainWindow._loaded_spatialdata_path is not None
    xml_path,            \* MainWindow.xml_path is set
    meta_path,           \* MainWindow.meta_path is set
    landmarks,           \* AppStateManager.landmarks
    current_lnd_points,  \* AppStateManager.current_lnd_points
    current_page,        \* MainWindow.stack.currentWidget(): "page1" or "page2"
    enabled_buttons,     \* the buttons of both pages whose isEnabled() is true
    enabled_actions,     \* the menu actions whose isEnabled() is true, by mirrored button
    assertion,           \* the assert statement that failed, "" while none has
    notice,              \* the title of the message box the last handler showed, or ""
    xml_file,            \* the shapes of the DVP XML file behind MainWindow.im_xml
    exported             \* what export_selected_shapes wrote last: <<>> before

\* the main window: its widgets and the state only its handlers touch
window == <<data_load_mode, channels, loaded_spatialdata, xml_path, meta_path,
            landmarks, current_lnd_points, current_page,
            enabled_buttons, enabled_actions, assertion, notice, xml_file, exported>>

vars == <<state, shapes, active_regions, current_ar_points, active_shape_ids,
          selected_shape_ids, shared, cell_labels, label_checkboxes,
          clustering_count, edits, call, polygons, measured, window>>

None == <<>>

NoCall ==
    [op |-> "none", k |-> 0, clustering_index |-> 0, cands |-> <<>>,
     point_ids |-> <<>>, selected_idss |-> <<>>, undersupplied |-> <<>>,
     warnings |-> {}, reported |-> 0, raised |-> "", prev |-> <<>>]

(***************************************************************************)
(* AppStateManager.select_shapes, piece by piece.                          *)
(***************************************************************************)
\* the "(p.x(), p.y()) for p in shapes[idx].points" lists of the shapes in ids
polys_of(ids) == [i \in 1..Len(ids) |-> shapes[ids[i] + 1]]

\* ActionPage.get_selected_labels: None without checkboxes, else the checked labels
get_selected_labels(checked) ==
    IF label_checkboxes = <<>> THEN None
    ELSE <<SelectSeq(label_checkboxes, LAMBDA l : l \in checked)>>

\* the active shapes that carry one of the selected labels
filtered_active_ids(selected_labels) ==
    SelectSeq(active_shape_ids,
              LAMBDA idx : /\ idx \in DOMAIN cell_labels[1]
                           /\ cell_labels[1][idx] \in Range(selected_labels))

\* the comparison of select_shapes written "<": a list of exactly k is clustered
takes_all_strict(n, k) == n < k

\* "len(active_ids_for_selection) <= k": everything is selected and the
\* "Could not select" warning is shown
takes_all(n, k) == n <= k

\* the map back stopping one element early
map_back_short(ids, selected_ids) ==
    [t \in 1..(Len(selected_ids) - 1) |-> ids[selected_ids[t] + 1]]

\* the map back returning the shapes in ascending order, as the random mode does
map_back_sorted(ids, selected_ids) ==
    SortedSeq({ids[selected_ids[t] + 1] : t \in 1..Len(selected_ids)})

\* the map back written "+=" onto the selection of the call before
map_back_accumulating(ids, selected_ids) ==
    selected_shape_ids \o [t \in 1..Len(selected_ids) |-> ids[selected_ids[t] + 1]]

\* the map back skipping the first returned index, "selected_ids[1:]"
map_back_seed_dropped(ids, selected_ids) ==
    [t \in 1..(Len(selected_ids) - 1) |-> ids[selected_ids[t + 1] + 1]]

\* [ids[i] for i in selected_ids]: selection indices back to shape indices
map_back(ids, selected_ids) ==
    [t \in 1..Len(selected_ids) |-> ids[selected_ids[t] + 1]]

\* the index of the first active region holding the centroid of shape i, -1 for none
is_contained(i) ==
    LET hits == {j \in 1..Len(active_regions) :
                    Inside[active_regions[j], centroid(shapes[i + 1])]}
    IN  IF hits = {} THEN -1
        ELSE (CHOOSE j \in hits : \A h \in hits : j <= h) - 1

\* point_ids of "k per region": one list of shape indices per active region
point_ids_per_region(ids) ==
    [j \in 1..Len(active_regions) |-> SelectSeq(ids, LAMBDA i : is_contained(i) = j - 1)]

\* point_ids of "k per label": one list of shape indices per selected label
point_ids_per_label(ids, selected_labels) ==
    [l \in 1..Len(selected_labels) |->
        SelectSeq(ids, LAMBDA i : cell_labels[1][i] = selected_labels[l])]

\* the per-group comparison written "<="
short_groups_inclusive(selected_idss, k) ==
    [g \in 1..Len(selected_idss) |-> Len(selected_idss[g]) <= k]

\* "[len(ids) < k for ids in selected_idss]"
short_groups(selected_idss, k) ==
    [g \in 1..Len(selected_idss) |-> Len(selected_idss[g]) < k]

\* the per-group results read in the index space of the first group
map_back_groups_first_space(point_ids, selected_idss) ==
    Concat([g \in 1..Len(selected_idss) |->
               [t \in 1..Len(selected_idss[g]) |->
                   Concat(point_ids)[selected_idss[g][t] + 1]]])

\* the per-group results mapped back and concatenated in group order
map_back_groups(point_ids, selected_idss) ==
    Concat([g \in 1..Len(selected_idss) |-> map_back(point_ids[g], selected_idss[g])])

\* polygon_mindist(polys) < 2.0
ContiguousThreshold == 2

\* the comparison inverted: "polygon_mindist(polys) > 2.0"
is_contiguous_inverted(ids) ==
    LessQ(<<Sq(ContiguousThreshold), 1>>, polygon_mindist(polys_of(ids)))

is_contiguous(ids) ==
    LessQ(polygon_mindist(polys_of(ids)), <<Sq(ContiguousThreshold), 1>>)

\* sorted(random.sample(range(n), k)): of all draws, the k lowest and the k
\* highest indices are explored
Samples(n, k) == {[i \in 1..k |-> i - 1], [i \in 1..k |-> n - k + i - 1]}

\* One call select_shapes(k) with the combo box at clustering_index, the
\* label boxes in `checked` ticked and `sample` drawn by the random mode:
\* the new selected_shape_ids, whether it is the list active_shape_ids
\* itself, and the call's locals and message boxes.
select_shapes_call(k, clustering_index, checked, sample) ==
    LET selected_labels == IF clustering_index = 3 THEN get_selected_labels(checked) ELSE None
        labels == IF selected_labels = None THEN <<>> ELSE selected_labels[1]
        ids == IF clustering_index = 3
               THEN (IF selected_labels = None \/ cell_labels = None THEN <<>>
                     ELSE filtered_active_ids(labels))
               ELSE active_shape_ids
        same_input == /\ call.op = "select_shapes"
                      /\ call.k = k
                      /\ call.clustering_index = clustering_index
                      /\ polys_of(call.cands) = polys_of(ids)
        base == [NoCall EXCEPT !.op = "select_shapes", !.k = k,
                               !.clustering_index = clustering_index,
                               !.cands = ids,
                               !.prev = IF same_input THEN <<selected_shape_ids>> ELSE <<>>]
        unchanged(c) == [selected |-> selected_shape_ids, shared |-> shared, call |-> c]
        finish(sel, sh, c) ==
            [selected |-> sel, shared |-> sh,
             call |-> [c EXCEPT !.warnings =
                          @ \cup (IF is_contiguous(sel) THEN {"contiguous"} ELSE {})]]
    IN  IF clustering_index = 3 /\ selected_labels = None
            THEN unchanged([base EXCEPT !.warnings = {"no_labels"}])
        ELSE IF clustering_index = 3 /\ cell_labels = None /\ active_shape_ids # <<>>
            THEN unchanged([base EXCEPT !.raised = "TypeError"])
        ELSE IF clustering_index = 3 /\ ids = <<>>
            THEN unchanged([base EXCEPT !.warnings = {"no_shapes_with_labels"}])
        ELSE IF takes_all(Len(ids), k)
            THEN finish(ids, clustering_index # 3,
                        [base EXCEPT !.warnings = {"undersupply"},
                                     !.reported = Len(active_shape_ids)])
        ELSE IF clustering_index = 0
            THEN IF InvalidInput(polys_of(ids), k)
                 THEN unchanged([base EXCEPT !.raised = "InvalidInput"])
                 ELSE LET selected_ids == polygon_gonzalez(polys_of(ids), k)
                      IN  finish(map_back(ids, selected_ids), FALSE,
                                 [base EXCEPT !.point_ids = <<ids>>,
                                              !.selected_idss = <<selected_ids>>])
        ELSE IF clustering_index = 1
            THEN finish(map_back(ids, sample), FALSE,
                        [base EXCEPT !.point_ids = <<ids>>, !.selected_idss = <<sample>>])
        ELSE IF clustering_index = 2
            THEN IF \E i \in Range(ids) : is_contained(i) < 0
                 THEN unchanged([base EXCEPT !.raised = "AssertionError"])
                 ELSE LET point_ids == point_ids_per_region(ids)
                          selected_idss ==
                              polygon_round_robin_gonzalez(
                                  [g \in 1..Len(point_ids) |-> polys_of(point_ids[g])], k)
                          short == short_groups(selected_idss, k)
                      IN  finish(map_back_groups(point_ids, selected_idss), FALSE,
                                 [base EXCEPT
                                    !.point_ids = point_ids,
                                    !.selected_idss = selected_idss,
                                    !.undersupplied = short,
                                    !.warnings = IF TRUE \in Range(short)
                                                 THEN {"undersupply_per_AR"} ELSE {}])
        ELSE LET point_ids == point_ids_per_label(ids, labels)
                 selected_idss ==
                     polygon_round_robin_gonzalez(
                         [g \in 1..Len(point_ids) |-> polys_of(point_ids[g])], k)
                 short == short_groups(selected_idss, k)
             IN  finish(map_back_groups(point_ids, selected_idss), FALSE,
                        [base EXCEPT
                           !.point_ids = point_ids,
                           !.selected_idss = selected_idss,
                           !.undersupplied = short,
                           !.warnings = IF TRUE \in Range(short)
                                        THEN {"undersupply_per_label"} ELSE {}])

(***************************************************************************)
(* The buttons of the two pages and the menu actions that mirror them.     *)
(***************************************************************************)
\* SelectionPage.buttons, by attribute name without "_btn"
Page1Buttons ==
    {"add_spatialdata", "add_channel", "load_shapes", "load_labels", "load_calibration",
     "manual_calibration", "confirm_calibration", "select_shape_color", "refresh",
     "reset", "next"}

\* ActionPage.buttons
Page2Buttons ==
    {"back", "add_lnd", "delete_last_point_lnd", "confirm_lnd", "delete_lnd", "add_ar",
     "delete_last_point_ar", "confirm_ar", "delete_ar", "select_shapes", "add_shapes",
     "rem_shapes", "export", "export_spatialdata", "load_lnd", "load_ar"}

\* the buttons _init_menu_bar gives a menu action
MirroredButtons ==
    (Page1Buttons \ {"select_shape_color"}) \cup (Page2Buttons \ {"back"})

page_of(button) == IF button \in Page1Buttons THEN "page1" ELSE "page2"

\* _sync_menu_actions: an action is enabled iff its page is shown and its
\* button is enabled
sync_menu_actions(page, buttons) ==
    {b \in MirroredButtons : page_of(b) = page /\ b \in buttons}

\* the import of spatialdata succeeded
SPATIALDATA_AVAILABLE == TRUE

\* reset_home_buttons: the enabled buttons of page 1 afterwards
reset_home_buttons == {"add_channel", "add_spatialdata"}

\* enable_adv_home_buttons: the enabled buttons of page 1 afterwards
enable_adv_home_buttons(mode) ==
    IF mode = "IMAGE"
    THEN Page1Buttons \ {"add_spatialdata"}
    ELSE Page1Buttons \ {"add_channel", "load_calibration", "manual_calibration",
                         "confirm_calibration", "load_shapes"}

\* reset_main_buttons: the enabled buttons of page 2 afterwards
reset_main_buttons(lnds, ars, selected) ==
    {"add_ar", "delete_ar", "delete_lnd", "select_shapes", "add_shapes", "rem_shapes", "back"}
        \cup (IF Len(lnds) < 2 THEN {"add_lnd"} ELSE {})
        \cup (IF selected # <<>>
              THEN {"export"} \cup (IF SPATIALDATA_AVAILABLE THEN {"export_spatialdata"} ELSE {})
              ELSE {})
        \cup (IF Len(ars) = 0 THEN {"load_ar"} ELSE {})
        \cup (IF Len(lnds) = 0 THEN {"load_lnd"} ELSE {})

\* the window after MainWindow.__init__: reset_home_buttons, then
\* reset_main_buttons, both with page 1 shown
WindowInit ==
    /\ data_load_mode = "NONE"
    /\ channels = 0
    /\ loaded_spatialdata = FALSE
    /\ xml_path = FALSE
    /\ meta_path = FALSE
    /\ landmarks = <<>>
    /\ current_lnd_points = <<>>
    /\ current_page = "page1"
    /\ enabled_buttons = reset_home_buttons \cup reset_main_buttons(<<>>, <<>>, <<>>)
    /\ enabled_actions = sync_menu_actions("page1", enabled_buttons)
    /\ assertion = ""
    /\ notice = ""
    /\ xml_file = <<>>
    /\ exported = <<>>

(***************************************************************************)
(* Initial state and operations.                                           *)
(***************************************************************************)
Init ==
    /\ state = "HOME"
    /\ shapes = <<>>
    /\ active_regions = <<>>
    /\ current_ar_points = <<>>
    /\ active_shape_ids = <<>>
    /\ selected_shape_ids = <<>>
    /\ shared = FALSE
    /\ cell_labels = None
    /\ label_checkboxes = <<>>
    /\ clustering_count = 3
    /\ edits = 0
    /\ call = NoCall
    /\ polygons = <<>>
    /\ measured = None
    /\ WindowInit

\* the indices of the shapes in shp whose centroid lies in one of the regions ars
shapes_in_regions(shp, ars) ==
    SelectSeq([i \in 1..Len(shp) |-> i - 1],
              LAMBDA i : \E j \in 1..Len(ars) : Inside[ars[j], centroid(shp[i + 1])])

\* filter_by_ar: active_shape_ids is rebuilt for the regions ars, and
\* selected_shape_ids is bound to the very same list
filter_by_ar(ars) ==
    /\ active_shape_ids' = shapes_in_regions(shapes, ars)
    /\ selected_shape_ids' = active_shape_ids'
    /\ shared' = TRUE
    /\ edits' = 0

\* MainWindow.add_channel, a channel loaded: the first page is unlocked
add_channel ==
    /\ state \in {"HOME", "ADV_HOME"}
    /\ state' = "ADV_HOME"
    /\ call' = NoCall
    /\ UNCHANGED <<shapes, active_regions, current_ar_points, active_shape_ids,
                   selected_shape_ids, shared, cell_labels, label_checkboxes,
                   clustering_count, edits>>
    /\ UNCHANGED <<polygons, measured, window>>

\* MainWindow.load_shapes_and_load_calibrate: reset_shapes, then the shapes
\* of the file
load_shapes_and_load_calibrate ==
    /\ state = "ADV_HOME"
    /\ \E layout \in ShapeLayouts : shapes' = layout
    /\ active_shape_ids' = <<>>
    /\ selected_shape_ids' = <<>>
    /\ shared' = FALSE
    /\ edits' = 0
    /\ call' = NoCall
    /\ UNCHANGED <<state, active_regions, current_ar_points, cell_labels,
                   label_checkboxes, clustering_count>>
    /\ UNCHANGED <<polygons, measured, window>>

\* MainWindow.load_labels with a label table: load_cell_labels, then
\* update_label_checkboxes on the labels' colors
load_labels ==
    /\ state = "ADV_HOME"
    /\ shapes # <<>>
    /\ \E labels_dict \in LabelDicts :
          /\ cell_labels' = <<labels_dict>>
          /\ label_checkboxes' = SortedLabels(Range(labels_dict))
    /\ clustering_count' = IF clustering_count = 3 THEN 4 ELSE clustering_count
    /\ call' = NoCall
    /\ UNCHANGED <<state, shapes, active_regions, current_ar_points, active_shape_ids,
                   selected_shape_ids, shared, edits>>
    /\ UNCHANGED <<polygons, measured, window>>

\* MainWindow.load_labels with "delete": clear_cell_labels, then
\* update_label_checkboxes(None)
delete_labels ==
    /\ state = "ADV_HOME"
    /\ shapes # <<>>
    /\ cell_labels' = None
    /\ label_checkboxes' = <<>>
    /\ clustering_count' = IF clustering_count = 4 THEN 3 ELSE clustering_count
    /\ call' = NoCall
    /\ UNCHANGED <<state, shapes, active_regions, current_ar_points, active_shape_ids,
                   selected_shape_ids, shared, edits>>
    /\ UNCHANGED <<polygons, measured, window>>

goto_second_page ==
    /\ state = "ADV_HOME"
    /\ state' = "MAIN"
    /\ call' = NoCall
    /\ UNCHANGED <<shapes, active_regions, current_ar_points, active_shape_ids,
                   selected_shape_ids, shared, cell_labels, label_checkboxes,
                   clustering_count, edits>>
    /\ UNCHANGED <<polygons, measured, window>>

goto_first_page ==
    /\ state = "MAIN"
    /\ state' = "ADV_HOME"
    /\ call' = NoCall
    /\ UNCHANGED <<shapes, active_regions, current_ar_points, active_shape_ids,
                   selected_shape_ids, shared, cell_labels, label_checkboxes,
                   clustering_count, edits>>
    /\ UNCHANGED <<polygons, measured, window>>

\* MainWindow.toggle_ar_selection: "Add AR" starts a drawing, "Cancel" drops it
toggle_ar_selection ==
    /\ \/ /\ state = "MAIN"
          /\ Len(active_regions) < MaxAR
          /\ state' = "SELECTING_AR"
       \/ /\ state = "SELECTING_AR"
          /\ state' = "MAIN"
    /\ current_ar_points' = <<>>
    /\ call' = NoCall
    /\ UNCHANGED <<shapes, active_regions, active_shape_ids, selected_shape_ids,
                   shared, cell_labels, label_checkboxes, clustering_count, edits>>
    /\ UNCHANGED <<polygons, measured, window>>

\* a right click while drawing: the next vertex of one of the regions drawn
add_ar_point ==
    /\ state = "SELECTING_AR"
    /\ \E r \in RegionLib :
          /\ Len(current_ar_points) < Len(r)
          /\ current_ar_points = SubSeq(r, 1, Len(current_ar_points))
          /\ current_ar_points' = Append(current_ar_points, r[Len(current_ar_points) + 1])
    /\ UNCHANGED <<state, shapes, active_regions, active_shape_ids, selected_shape_ids,
                   shared, cell_labels, label_checkboxes, clustering_count, edits, call>>
    /\ UNCHANGED <<polygons, measured, window>>

\* "Undo" while drawing
delete_last_ar_point ==
    /\ state = "SELECTING_AR"
    /\ current_ar_points' = IF Len(current_ar_points) > 0
                            THEN SubSeq(current_ar_points, 1, Len(current_ar_points) - 1)
                            ELSE current_ar_points
    /\ UNCHANGED <<state, shapes, active_regions, active_shape_ids, selected_shape_ids,
                   shared, cell_labels, label_checkboxes, clustering_count, edits, call>>
    /\ UNCHANGED <<polygons, measured, window>>

\* "Confirm", enabled from the third point on: the drawing becomes an
\* active region and the shapes are filtered again
confirm_ar ==
    /\ state = "SELECTING_AR"
    /\ Len(current_ar_points) > 2
    /\ active_regions' = Append(active_regions, current_ar_points)
    /\ current_ar_points' = <<>>
    /\ filter_by_ar(active_regions')
    /\ state' = "MAIN"
    /\ UNCHANGED <<shapes, cell_labels, label_checkboxes, clustering_count, call>>
    /\ UNCHANGED <<polygons, measured, window>>

toggle_ar_deletion ==
    /\ \/ state = "MAIN" /\ state' = "DELETING_AR"
       \/ state = "DELETING_AR" /\ state' = "MAIN"
    /\ call' = NoCall
    /\ UNCHANGED <<shapes, active_regions, current_ar_points, active_shape_ids,
                   selected_shape_ids, shared, cell_labels, label_checkboxes,
                   clustering_count, edits>>
    /\ UNCHANGED <<polygons, measured, window>>

\* a right click while deleting regions: the first region under the click
\* is removed and the shapes are filtered again
try_deleting_ar ==
    /\ state = "DELETING_AR"
    /\ \E scene_pos \in Clicks :
          LET hits == {j \in 1..Len(active_regions) :
                          Inside[active_regions[j], scene_pos]}
              idx  == CHOOSE j \in hits : \A h \in hits : j <= h
          IN  /\ hits # {}
              /\ active_regions' = Pop(active_regions, idx - 1)
              /\ filter_by_ar(active_regions')
    /\ UNCHANGED <<state, shapes, current_ar_points, cell_labels, label_checkboxes,
                   clustering_count, call>>
    /\ UNCHANGED <<polygons, measured, window>>

toggle_shape_add ==
    /\ \/ state = "MAIN" /\ state' = "ADDING_SHP"
       \/ state = "ADDING_SHP" /\ state' = "MAIN"
    /\ call' = NoCall
    /\ UNCHANGED <<shapes, active_regions, current_ar_points, active_shape_ids,
                   selected_shape_ids, shared, cell_labels, label_checkboxes,
                   clustering_count, edits>>
    /\ UNCHANGED <<polygons, measured, window>>

\* a right click while adding shapes: the first active shape under the
\* click is appended to selected_shape_ids, in place
try_adding_shp ==
    /\ state = "ADDING_SHP"
    /\ edits < MaxEdits
    /\ \E scene_pos \in Clicks :
          LET hits == {t \in 1..Len(active_shape_ids) :
                          Inside[shapes[active_shape_ids[t] + 1], scene_pos]}
              first == CHOOSE t \in hits : \A h \in hits : t <= h
          IN  /\ hits # {}
              /\ selected_shape_ids' = Append(selected_shape_ids, active_shape_ids[first])
    /\ active_shape_ids' = IF shared THEN selected_shape_ids' ELSE active_shape_ids
    /\ edits' = edits + 1
    /\ UNCHANGED <<state, shapes, active_regions, current_ar_points, shared, cell_labels,
                   label_checkboxes, clustering_count, call>>
    /\ UNCHANGED <<polygons, measured, window>>

toggle_shape_rem ==
    /\ \/ state = "MAIN" /\ state' = "DELETING_SHP"
       \/ state = "DELETING_SHP" /\ state' = "MAIN"
    /\ call' = NoCall
    /\ UNCHANGED <<shapes, active_regions, current_ar_points, active_shape_ids,
                   selected_shape_ids, shared, cell_labels, label_checkboxes,
                   clustering_count, edits>>
    /\ UNCHANGED <<polygons, measured, window>>

\* a right click while deleting shapes: the first selected entry under the
\* click is popped from selected_shape_ids, in place
try_deleting_shp ==
    /\ state = "DELETING_SHP"
    /\ edits < MaxEdits
    /\ \E scene_pos \in Clicks :
          LET hits == {t \in 1..Len(selected_shape_ids) :
                          Inside[shapes[selected_shape_ids[t] + 1], scene_pos]}
              first == CHOOSE t \in hits : \A h \in hits : t <= h
          IN  /\ hits # {}
              /\ selected_shape_ids' = Pop(selected_shape_ids, first - 1)
    /\ active_shape_ids' = IF shared THEN selected_shape_ids' ELSE active_shape_ids
    /\ edits' = edits + 1
    /\ UNCHANGED <<state, shapes, active_regions, current_ar_points, shared, cell_labels,
                   label_checkboxes, clustering_count, call>>
    /\ UNCHANGED <<polygons, measured, window>>

\* MainWindow.select_shapes: "Automatic Selection" with the spin box at k
select_shapes ==
    /\ state = "MAIN"
    /\ \E k \in 0..MaxK, clustering_index \in 0..(clustering_count - 1) :
        \E checked \in (IF clustering_index = 3 THEN SUBSET Range(label_checkboxes) ELSE {{}}) :
        \E sample \in (IF clustering_index = 1 /\ ~takes_all(Len(active_shape_ids), k)
                       THEN Samples(Len(active_shape_ids), k) ELSE {<<>>}) :
        \E r \in {select_shapes_call(k, clustering_index, checked, sample)} :
                /\ selected_shape_ids' = r.selected
                /\ shared' = r.shared
                /\ call' = r.call
    /\ UNCHANGED <<state, shapes, active_regions, current_ar_points, active_shape_ids,
                   cell_labels, label_checkboxes, clustering_count, edits>>
    /\ UNCHANGED <<polygons, measured, window>>

Next ==
    \/ add_channel
    \/ load_shapes_and_load_calibrate
    \/ load_labels
    \/ delete_labels
    \/ goto_second_page
    \/ goto_first_page
    \/ toggle_ar_selection
    \/ add_ar_point
    \/ delete_last_ar_point
    \/ confirm_ar
    \/ toggle_ar_deletion
    \/ try_deleting_ar
    \/ toggle_shape_add
    \/ try_adding_shp
    \/ toggle_shape_rem
    \/ try_deleting_shp
    \/ select_shapes

Spec == Init /\ [][Next]_vars

(***************************************************************************)
(* The distance function on its own: two polygons are drawn, then          *)
(* polygon_polygon_distance is applied to them.                            *)
(***************************************************************************)
\* squares sharing an edge, sharing a corner and apart; a rectangle around
\* them; two bars crossing; a rectangle with a triangle's vertex on its edge
GeoPool ==
    {Square(0, 0), Square(1, 0), Square(1, 1), Square(3, 0), Rect(-2, -2, 6, 6),
     Rect(10, 1, 16, 2), Rect(12, -1, 13, 4), Rect(0, 0, 4, 4),
     <<<<4, 2>>, <<6, 1>>, <<6, 3>>>>}

GeoInit ==
    /\ state = "HOME"
    /\ shapes = <<>>
    /\ active_regions = <<>>
    /\ current_ar_points = <<>>
    /\ active_shape_ids = <<>>
    /\ selected_shape_ids = <<>>
    /\ shared = FALSE
    /\ cell_labels = None
    /\ label_checkboxes = <<>>
    /\ clustering_count = 3
    /\ edits = 0
    /\ call = NoCall
    /\ polygons \in {<<a, b>> : a, b \in GeoPool}
    /\ measured = None
    /\ WindowInit

measure_distance ==
    /\ measured = None
    /\ measured' = <<polygon_polygon_distance(polygons[1], polygons[2])>>
    /\ UNCHANGED <<state, shapes, active_regions, current_ar_points, active_shape_ids,
                   selected_shape_ids, shared, cell_labels, label_checkboxes,
                   clustering_count, edits, call, polygons, window>>

GeoNext == measure_distance

GeoSpec == GeoInit /\ [][GeoNext]_vars

(***************************************************************************)
(* The main window.  Every handler is taken as its button, its menu action *)
(* or the right click invokes it, with the state it changes and the        *)
(* widgets it enables and disables; a run is followed up to the first      *)
(* assert statement that fails.                                            *)
(***************************************************************************)
\* the shape list of the file and of the stores loaded in this window
UiLayout == <<Square(0, 0), Square(20, 0), Square(40, 0)>>

\* the active region and landmark a store holds
StoredRegion == CHOOSE r \in RegionLib : r[1] = <<-5, -5>>

\* a polygon of a store whose image is shown at half its resolution
Doubled(points) == [i \in 1..Len(points) |-> <<2 * points[i][1], 2 * points[i][2]>>]

NoStore ==
    [images |-> 0, scale_factor |-> 1, polygons |-> <<>>, landmarks |-> <<>>,
     active_regions |-> <<>>, selected_cells |-> <<>>]

\* the SpatialData stores a user opens, in the coordinates of the store: an
\* empty one, one without annotations, one with a landmark and a region,
\* one with a region and the mask of selected cell 0, and one shown at half
\* its resolution (scale factor 2) with a region and the mask of selected
\* cell 1; in both the selected cell lies in the region
StoreLib ==
    {NoStore,
     [NoStore EXCEPT !.images = 1, !.polygons = UiLayout],
     [NoStore EXCEPT !.images = 1, !.polygons = UiLayout,
                     !.landmarks = <<StoredRegion>>, !.active_regions = <<StoredRegion>>],
     [NoStore EXCEPT !.images = 1, !.polygons = UiLayout,
                     !.active_regions = <<StoredRegion>>,
                     !.selected_cells = <<centroid(Square(0, 0))>>],
     [NoStore EXCEPT !.images = 1, !.scale_factor = 2,
                     !.polygons = [i \in 1..Len(UiLayout) |-> Doubled(UiLayout[i])],
                     !.active_regions = <<Doubled(StoredRegion)>>,
                     !.selected_cells = <<centroid(Doubled(Square(20, 0)))>>]}

\* the points divided by _spatialdata_scale_factor (the stores above keep
\* the quotients whole)
scaled_down(points, scale_factor) ==
    [i \in 1..Len(points) |-> <<points[i][1] \div scale_factor, points[i][2] \div scale_factor>>]

\* the squared distance between two positions
position_distance(p, q) ==
    <<Sq(p[1] * q[3] - q[1] * p[3]) + Sq(p[2] * q[3] - q[2] * p[3]), Sq(p[3] * q[3])>>

\* SpatialDataLoader.load_cellpick_selected_cells: each selected mask is
\* matched to the first polygon whose vertex mean is closest to the mask's
\* centroid, and kept when that is within 50 pixels
load_cellpick_selected_cells(all_cell_polygons, selected_centroids) ==
    LET n == Len(all_cell_polygons)
        dist(idx, c) == position_distance(centroid(all_cell_polygons[idx]), c)
        best_idx(c) == CHOOSE idx \in 1..n :
                          /\ \A j \in 1..n : ~LessQ(dist(j, c), dist(idx, c))
                          /\ \A j \in 1..(idx - 1) : LessQ(dist(idx, c), dist(j, c))
        match(c) == IF n > 0 /\ LessQ(dist(best_idx(c), c), <<Sq(50), 1>>)
                    THEN <<best_idx(c) - 1>> ELSE <<>>
    IN  Concat([i \in 1..Len(selected_centroids) |-> match(selected_centroids[i])])

\* what _clear_spatialdata_state and the loading code of add_spatialdata work on
window_data ==
    [channels |-> channels, shapes |-> shapes, active_shape_ids |-> active_shape_ids,
     selected_shape_ids |-> selected_shape_ids, shared |-> shared, edits |-> edits,
     landmarks |-> landmarks, current_lnd_points |-> current_lnd_points,
     active_regions |-> active_regions, current_ar_points |-> current_ar_points,
     cell_labels |-> cell_labels, loaded_spatialdata |-> loaded_spatialdata]

store_window_data(w) ==
    /\ channels' = w.channels
    /\ shapes' = w.shapes
    /\ active_shape_ids' = w.active_shape_ids
    /\ selected_shape_ids' = w.selected_shape_ids
    /\ shared' = w.shared
    /\ edits' = w.edits
    /\ landmarks' = w.landmarks
    /\ current_lnd_points' = w.current_lnd_points
    /\ active_regions' = w.active_regions
    /\ current_ar_points' = w.current_ar_points
    /\ cell_labels' = w.cell_labels
    /\ loaded_spatialdata' = w.loaded_spatialdata

\* MainWindow._clear_spatialdata_state
clear_spatialdata_state(w) ==
    [w EXCEPT !.channels = 0, !.shapes = <<>>, !.active_shape_ids = <<>>,
              !.selected_shape_ids = <<>>, !.shared = FALSE, !.edits = 0,
              !.landmarks = <<>>, !.current_lnd_points = <<>>,
              !.active_regions = <<>>, !.current_ar_points = <<>>,
              !.cell_labels = None, !.loaded_spatialdata = FALSE]

\* add_spatialdata from the channels of the store to _loaded_spatialdata_path:
\* the channels, the polygons after reset_shapes, then the stored landmarks,
\* active regions (active_shape_ids is rebuilt) and selected cells; polygons,
\* landmarks and regions are divided by the scale factor, the masks of the
\* selected cells are matched as stored
load_store(w, store) ==
    LET scale(list) == [i \in 1..Len(list) |-> scaled_down(list[i], store.scale_factor)]
        polygons_loaded == store.polygons # <<>>
        has_cellpick_annotations ==
            store.landmarks # <<>> \/ store.active_regions # <<>> \/ store.selected_cells # <<>>
        w1 == IF polygons_loaded
              THEN [w EXCEPT !.shapes = scale(store.polygons), !.active_shape_ids = <<>>,
                             !.selected_shape_ids = <<>>, !.shared = FALSE, !.edits = 0]
              ELSE w
        w2 == IF has_cellpick_annotations /\ store.landmarks # <<>>
              THEN [w1 EXCEPT !.landmarks = scale(store.landmarks)]
              ELSE w1
        w3 == IF has_cellpick_annotations /\ store.active_regions # <<>>
              THEN [w2 EXCEPT !.active_regions = scale(store.active_regions),
                              !.active_shape_ids =
                                  shapes_in_regions(w2.shapes, scale(store.active_regions)),
                              !.shared = FALSE, !.edits = 0]
              ELSE w2
        selected_ids == load_cellpick_selected_cells(w3.shapes, store.selected_cells)
        w4 == IF has_cellpick_annotations /\ polygons_loaded
              THEN IF selected_ids # <<>>
                   THEN [w3 EXCEPT !.selected_shape_ids = selected_ids, !.shared = FALSE]
                   ELSE IF store.active_regions # <<>>
                        THEN [w3 EXCEPT !.selected_shape_ids = w3.active_shape_ids,
                                        !.shared = TRUE]
                        ELSE w3
              ELSE w3
    IN  [w4 EXCEPT !.channels = w.channels + store.images, !.loaded_spatialdata = TRUE]

\* the variables grouped for the frame conditions of the handlers
selection == <<shapes, active_shape_ids, selected_shape_ids, shared, edits>>
regions == <<active_regions, current_ar_points>>
landmark_state == <<landmarks, current_lnd_points>>
label_state == <<cell_labels, label_checkboxes, clustering_count>>
calibration == <<xml_path, meta_path>>
widgets == <<current_page, enabled_buttons, enabled_actions>>
probes == <<call, polygons, measured, xml_file, exported>>

\* a handler can be invoked by its button, when that is enabled and on the
\* page shown, or by its menu action, when that is enabled
Invocable(button) ==
    /\ assertion = ""
    /\ \/ button \in enabled_buttons /\ page_of(button) = current_page
       \/ button \in enabled_actions

CalibrationButtons == {"load_calibration", "manual_calibration", "confirm_calibration"}

\* AppStateManager.enable_advanced_home: the state, the buttons of page 1
\* and, in the SpatialData workflow only, the menu
enable_advanced_home(mode) ==
    /\ state' = "ADV_HOME"
    /\ enabled_buttons' = (enabled_buttons \ Page1Buttons) \cup enable_adv_home_buttons(mode)
    /\ enabled_actions' = IF mode = "IMAGE" THEN enabled_actions
                          ELSE sync_menu_actions(current_page, enabled_buttons')

\* add_channel without its workflow check
wrong_workflow_for_channel_unchecked(mode) == FALSE

\* add_channel's first test: image channels are refused in the SpatialData workflow
wrong_workflow_for_channel(mode) == mode = "SPATIALDATA"

\* MainWindow.add_channel: refused in the SpatialData workflow; else the file
\* or a name or colour dialog is cancelled, or the channels of the file are
\* added, each one setting the IMAGE workflow and unlocking page 1 without
\* the calibration buttons
on_add_channel ==
    /\ Invocable("add_channel")
    /\ IF wrong_workflow_for_channel(data_load_mode)
       THEN /\ notice' = "Wrong Workflow"
            /\ UNCHANGED <<state, data_load_mode, channels, enabled_buttons, enabled_actions>>
       ELSE \/ /\ notice' = ""
               /\ UNCHANGED <<state, data_load_mode, channels, enabled_buttons,
                              enabled_actions>>
            \/ /\ \E n \in 1..(MaxChannels - channels) : channels' = channels + n
               /\ data_load_mode' = IF data_load_mode = "NONE" THEN "IMAGE"
                                    ELSE data_load_mode
               /\ state' = "ADV_HOME"
               /\ enabled_buttons' =
                      (enabled_buttons \ Page1Buttons)
                          \cup (enable_adv_home_buttons(data_load_mode') \ CalibrationButtons)
               /\ enabled_actions' =
                      IF data_load_mode' = "IMAGE" THEN enabled_actions
                      ELSE sync_menu_actions(current_page, enabled_buttons')
               /\ notice' = ""
    /\ UNCHANGED <<selection, regions, landmark_state, label_state, calibration,
                   loaded_spatialdata, current_page, assertion, probes>>

\* MainWindow.add_spatialdata: refused in the IMAGE workflow; else the folder
\* dialog or the "already loaded" question is cancelled, or the old store is
\* cleared and the new one is empty, or loading is cancelled after the
\* channels, or the store is loaded, the SPATIALDATA workflow is set and
\* page 1 unlocked
on_add_spatialdata ==
    /\ Invocable("add_spatialdata")
    /\ IF data_load_mode = "IMAGE"
       THEN /\ notice' = "Wrong Workflow"
            /\ UNCHANGED <<state, data_load_mode, enabled_buttons, enabled_actions,
                           channels, selection, regions, landmark_state, cell_labels,
                           loaded_spatialdata>>
       ELSE IF ~SPATIALDATA_AVAILABLE
       THEN /\ notice' = "SpatialData Not Available"
            /\ UNCHANGED <<state, data_load_mode, enabled_buttons, enabled_actions,
                           channels, selection, regions, landmark_state, cell_labels,
                           loaded_spatialdata>>
       ELSE \/ /\ notice' = ""
               /\ UNCHANGED <<state, data_load_mode, enabled_buttons, enabled_actions,
                              channels, selection, regions, landmark_state, cell_labels,
                              loaded_spatialdata>>
            \/ /\ loaded_spatialdata
               /\ notice' = "SpatialData Already Loaded"
               /\ UNCHANGED <<state, data_load_mode, enabled_buttons, enabled_actions,
                              channels, selection, regions, landmark_state, cell_labels,
                              loaded_spatialdata>>
            \/ \E store \in StoreLib, cancelled \in BOOLEAN :
                  LET base == IF loaded_spatialdata THEN clear_spatialdata_state(window_data)
                              ELSE window_data
                  IN  /\ base.channels + store.images <= MaxChannels
                      /\ IF store = NoStore
                         THEN /\ ~cancelled
                              /\ store_window_data(base)
                              /\ notice' = "No Data Found"
                              /\ UNCHANGED <<state, data_load_mode, enabled_buttons,
                                             enabled_actions>>
                         ELSE IF cancelled
                         THEN /\ store_window_data(
                                     [base EXCEPT !.channels = base.channels + store.images])
                              /\ notice' = ""
                              /\ UNCHANGED <<state, data_load_mode, enabled_buttons,
                                             enabled_actions>>
                         ELSE /\ store_window_data(load_store(base, store))
                              /\ data_load_mode' = IF data_load_mode = "NONE"
                                                   THEN "SPATIALDATA" ELSE data_load_mode
                              /\ enable_advanced_home(data_load_mode')
                              /\ notice' = "SpatialData Loaded"
    /\ UNCHANGED <<label_checkboxes, clustering_count, calibration, current_page,
                   assertion, probes>>

\* MainWindow.remove_channel, from the "X" of a channel on page 1: after the
\* last channel to_home locks page 1 again
on_remove_channel ==
    /\ assertion = ""
    /\ current_page = "page1"
    /\ channels > 0
    /\ channels' = channels - 1
    /\ IF channels' = 0
       THEN /\ state' = "HOME"
            /\ enabled_buttons' = (enabled_buttons \ Page1Buttons) \cup reset_home_buttons
            /\ enabled_actions' = sync_menu_actions(current_page, enabled_buttons')
       ELSE UNCHANGED <<state, enabled_buttons, enabled_actions>>
    /\ notice' = ""
    /\ UNCHANGED <<data_load_mode, selection, regions, landmark_state, label_state,
                   calibration, loaded_spatialdata, current_page, assertion, probes>>

\* MainWindow.load_shapes: the path of the shape file is kept and the
\* calibration buttons are enabled
on_load_shapes ==
    /\ Invocable("load_shapes")
    /\ IF channels = 0
       THEN /\ notice' = "Warning"
            /\ UNCHANGED <<xml_path, enabled_buttons>>
       ELSE \/ /\ notice' = ""
               /\ UNCHANGED <<xml_path, enabled_buttons>>
            \/ /\ xml_path' = TRUE
               /\ enabled_buttons' = enabled_buttons \cup CalibrationButtons
               /\ notice' = "Shapes Loaded"
    /\ UNCHANGED <<state, data_load_mode, channels, loaded_spatialdata, meta_path,
                   selection, regions, landmark_state, label_state,
                   current_page, enabled_actions, assertion, probes>>

\* MainWindow.load_labels: refused without shapes; else the dialog is
\* cancelled, or a label table is loaded and the checkboxes and the "Select k
\* per label" entry are made, or the labels are deleted and both removed
on_load_labels ==
    /\ Invocable("load_labels")
    /\ IF shapes = <<>>
       THEN /\ notice' = "No Shapes"
            /\ UNCHANGED label_state
       ELSE \/ /\ notice' = ""
               /\ UNCHANGED label_state
            \/ /\ \E labels_dict \in LabelDicts :
                      /\ cell_labels' = <<labels_dict>>
                      /\ label_checkboxes' = SortedLabels(Range(labels_dict))
               /\ clustering_count' = IF clustering_count = 3 THEN 4 ELSE clustering_count
               /\ notice' = "Success"
            \/ /\ cell_labels' = None
               /\ label_checkboxes' = <<>>
               /\ clustering_count' = IF clustering_count = 4 THEN 3 ELSE clustering_count
               /\ notice' = ""
    /\ UNCHANGED <<state, data_load_mode, channels, loaded_spatialdata, calibration,
                   selection, regions, landmark_state, widgets, assertion, probes>>

\* MainWindow.load_calibration
on_load_calibration ==
    /\ Invocable("load_calibration")
    /\ IF data_load_mode # "IMAGE"
       THEN /\ assertion' = "load_calibration: data_load_mode == IMAGE"
            /\ notice' = ""
            /\ UNCHANGED meta_path
       ELSE /\ IF channels = 0
               THEN notice' = "Warning" /\ UNCHANGED meta_path
               ELSE \/ notice' = "" /\ UNCHANGED meta_path
                    \/ notice' = "" /\ meta_path' = TRUE
            /\ UNCHANGED assertion
    /\ UNCHANGED <<state, data_load_mode, channels, loaded_spatialdata, xml_path,
                   selection, regions, landmark_state, label_state, widgets, probes>>

\* MainWindow.confirm_calibration: with a calibration file chosen,
\* load_shapes_and_load_calibrate: reset_shapes and then the shapes of the
\* shape file (no calibration points are chosen by hand in these runs)
on_confirm_calibration ==
    /\ Invocable("confirm_calibration")
    /\ IF xml_path /\ meta_path
       THEN /\ shapes' = UiLayout
            /\ active_shape_ids' = <<>>
            /\ selected_shape_ids' = <<>>
            /\ shared' = FALSE
            /\ edits' = 0
       ELSE UNCHANGED selection
    /\ notice' = ""
    /\ UNCHANGED <<state, data_load_mode, channels, loaded_spatialdata, calibration,
                   regions, landmark_state, label_state, widgets, assertion, probes>>

\* MainWindow.goto_second_page, from "Next" or "Next Page"
on_goto_second_page ==
    /\ Invocable("next")
    /\ state' = "MAIN"
    /\ current_page' = "page2"
    /\ enabled_actions' = sync_menu_actions(current_page', enabled_buttons)
    /\ notice' = ""
    /\ UNCHANGED <<data_load_mode, channels, loaded_spatialdata, calibration, selection,
                   regions, landmark_state, label_state, enabled_buttons, assertion,
                   probes>>

\* MainWindow.goto_first_page, from "Back"
on_goto_first_page ==
    /\ Invocable("back")
    /\ state' = "ADV_HOME"
    /\ current_page' = "page1"
    /\ enabled_actions' = sync_menu_actions(current_page', enabled_buttons)
    /\ notice' = ""
    /\ UNCHANGED <<data_load_mode, channels, loaded_spatialdata, calibration, selection,
                   regions, landmark_state, label_state, enabled_buttons, assertion,
                   probes>>

\* a toggle_* handler in MAIN: the mode is entered and every button of
\* page 2 but those of the mode is disabled; the menu is left as it is
enter_mode(mode_state, mode_buttons) ==
    /\ state' = mode_state
    /\ enabled_buttons' = (enabled_buttons \ Page2Buttons) \cup mode_buttons
    /\ UNCHANGED enabled_actions

\* back in MAIN: reset_main_buttons for the landmarks, regions and selection
\* there are now, and the menu is synchronised
back_to_main(lnds, ars, selected) ==
    /\ state' = "MAIN"
    /\ enabled_buttons' =
           (enabled_buttons \ Page2Buttons) \cup reset_main_buttons(lnds, ars, selected)
    /\ enabled_actions' = sync_menu_actions(current_page, enabled_buttons')

\* an assert statement fails: the handler stops there
fails(statement) ==
    /\ assertion' = statement
    /\ UNCHANGED <<state, enabled_buttons, enabled_actions>>

\* the next vertex of the polygon a user draws in this window
next_point(points) ==
    {r[Len(points) + 1] : r \in {q \in {StoredRegion} : /\ Len(points) < Len(q)
                                                        /\ points = SubSeq(q, 1, Len(points))}}

\* the undo test taken one point too late
undo_disables_confirm_late(points) == Len(points) <= 1

\* delete_last_lnd_point and delete_last_ar_point: after the pop, "Confirm"
\* is disabled when at most two points are left
undo_disables_confirm(points) == Len(points) <= 2

\* MainWindow.toggle_landmark_selection: "Add Landmark" starts a drawing,
\* "Cancel" drops it
on_toggle_landmark_selection ==
    /\ Invocable("add_lnd")
    /\ IF state = "MAIN"
       THEN /\ current_lnd_points' = <<>>
            /\ enter_mode("SELECTING_LND", {"delete_last_point_lnd", "add_lnd"})
            /\ UNCHANGED assertion
       ELSE IF state = "SELECTING_LND"
       THEN /\ current_lnd_points' = <<>>
            /\ back_to_main(landmarks, active_regions, selected_shape_ids)
            /\ UNCHANGED assertion
       ELSE /\ fails("toggle_landmark_selection: state == SELECTING_LND")
            /\ UNCHANGED current_lnd_points
    /\ notice' = ""
    /\ UNCHANGED <<data_load_mode, channels, loaded_spatialdata, calibration, selection,
                   regions, landmarks, label_state, current_page, probes>>

\* a right click while drawing a landmark: from the third point on
\* "Confirm" is enabled
on_add_lnd_point ==
    /\ assertion = ""
    /\ state = "SELECTING_LND"
    /\ \E point \in next_point(current_lnd_points) :
          current_lnd_points' = Append(current_lnd_points, point)
    /\ enabled_buttons' = IF Len(current_lnd_points') > 2
                          THEN enabled_buttons \cup {"confirm_lnd"} ELSE enabled_buttons
    /\ notice' = ""
    /\ UNCHANGED <<state, data_load_mode, channels, loaded_spatialdata, calibration,
                   selection, regions, landmarks, label_state, current_page,
                   enabled_actions, assertion, probes>>

\* MainWindow.delete_last_lnd_point, "Undo" of the landmark drawn
on_delete_last_lnd_point ==
    /\ Invocable("delete_last_point_lnd")
    /\ IF state = "SELECTING_LND"
       THEN /\ current_lnd_points' =
                   IF Len(current_lnd_points) > 0
                   THEN SubSeq(current_lnd_points, 1, Len(current_lnd_points) - 1)
                   ELSE current_lnd_points
            /\ enabled_buttons' = IF undo_disables_confirm(current_lnd_points')
                                  THEN enabled_buttons \ {"confirm_lnd"} ELSE enabled_buttons
            /\ UNCHANGED <<state, enabled_actions, assertion>>
       ELSE /\ fails("delete_last_lnd_point: state == SELECTING_LND")
            /\ UNCHANGED current_lnd_points
    /\ notice' = ""
    /\ UNCHANGED <<data_load_mode, channels, loaded_spatialdata, calibration, selection,
                   regions, landmarks, label_state, current_page, probes>>

\* MainWindow.confirm_landmark: the drawing becomes a landmark
on_confirm_landmark ==
    /\ Invocable("confirm_lnd")
    /\ IF state # "SELECTING_LND"
       THEN /\ fails("confirm_landmark: state == SELECTING_LND")
            /\ UNCHANGED landmark_state
       ELSE IF ~(Len(current_lnd_points) > 2)
       THEN /\ fails("confirm_landmark: len(current_lnd_points) > 2")
            /\ UNCHANGED landmark_state
       ELSE /\ landmarks' = Append(landmarks, current_lnd_points)
            /\ current_lnd_points' = <<>>
            /\ back_to_main(landmarks', active_regions, selected_shape_ids)
            /\ UNCHANGED assertion
    /\ notice' = ""
    /\ UNCHANGED <<data_load_mode, channels, loaded_spatialdata, calibration, selection,
                   regions, label_state, current_page, probes>>

\* MainWindow.toggle_landmark_deletion
on_toggle_landmark_deletion ==
    /\ Invocable("delete_lnd")
    /\ IF state = "MAIN"
       THEN enter_mode("DELETING_LND", {"delete_lnd"}) /\ UNCHANGED assertion
       ELSE IF state = "DELETING_LND"
       THEN /\ back_to_main(landmarks, active_regions, selected_shape_ids)
            /\ UNCHANGED assertion
       ELSE fails("toggle_landmark_deletion: state == DELETING_LND")
    /\ notice' = ""
    /\ UNCHANGED <<data_load_mode, channels, loaded_spatialdata, calibration, selection,
                   regions, landmark_state, label_state, current_page, probes>>

\* a right click while deleting landmarks: the first landmark under the
\* click is removed
on_try_deleting_landmark ==
    /\ assertion = ""
    /\ state = "DELETING_LND"
    /\ \E scene_pos \in Clicks :
          LET hits == {j \in 1..Len(landmarks) : Inside[landmarks[j], scene_pos]}
              idx  == CHOOSE j \in hits : \A h \in hits : j <= h
          IN  /\ hits # {}
              /\ landmarks' = Pop(landmarks, idx - 1)
    /\ notice' = ""
    /\ UNCHANGED <<state, data_load_mode, channels, loaded_spatialdata, calibration,
                   selection, regions, current_lnd_points, label_state, widgets,
                   assertion, probes>>

\* the landmark files a user opens: one, two and three landmarks
LandmarkFiles ==
    {<<StoredRegion>>, <<StoredRegion, StoredRegion>>,
     <<StoredRegion, StoredRegion, StoredRegion>>}

\* MainWindow.load_landmarks_from_file: the landmarks of the file replace
\* those held, unless the file holds more than two; the AssertionError of
\* reset_main_buttons outside MAIN ends in the "Error" box of the handler
on_load_landmarks_from_file ==
    /\ Invocable("load_lnd")
    /\ \/ /\ notice' = ""
          /\ UNCHANGED <<landmarks, state, enabled_buttons, enabled_actions>>
       \/ \E file \in LandmarkFiles :
             IF Len(file) > 2
             THEN /\ notice' = "Error"
                  /\ UNCHANGED <<landmarks, state, enabled_buttons, enabled_actions>>
             ELSE /\ landmarks' = file
                  /\ IF state = "MAIN"
                     THEN /\ back_to_main(landmarks', active_regions, selected_shape_ids)
                          /\ notice' = ""
                     ELSE /\ notice' = "Error"
                          /\ UNCHANGED <<state, enabled_buttons, enabled_actions>>
    /\ UNCHANGED <<data_load_mode, channels, loaded_spatialdata, calibration, selection,
                   regions, current_lnd_points, label_state, current_page, assertion,
                   probes>>

\* MainWindow.toggle_ar_selection: "Add AR" starts a drawing, "Cancel" drops it
on_toggle_ar_selection ==
    /\ Invocable("add_ar")
    /\ IF state = "MAIN"
       THEN /\ Len(active_regions) < MaxAR
            /\ current_ar_points' = <<>>
            /\ enter_mode("SELECTING_AR", {"add_ar", "delete_last_point_ar"})
            /\ UNCHANGED assertion
       ELSE IF state = "SELECTING_AR"
       THEN /\ current_ar_points' = <<>>
            /\ back_to_main(landmarks, active_regions, selected_shape_ids)
            /\ UNCHANGED assertion
       ELSE /\ fails("toggle_ar_selection: state == SELECTING_AR")
            /\ UNCHANGED current_ar_points
    /\ notice' = ""
    /\ UNCHANGED <<data_load_mode, channels, loaded_spatialdata, calibration, selection,
                   active_regions, landmark_state, label_state, current_page, probes>>

\* a right click while drawing a region: from the third point on "Confirm"
\* is enabled
on_add_ar_point ==
    /\ assertion = ""
    /\ state = "SELECTING_AR"
    /\ \E point \in next_point(current_ar_points) :
          current_ar_points' = Append(current_ar_points, point)
    /\ enabled_buttons' = IF Len(current_ar_points') > 2
                          THEN enabled_buttons \cup {"confirm_ar"} ELSE enabled_buttons
    /\ notice' = ""
    /\ UNCHANGED <<state, data_load_mode, channels, loaded_spatialdata, calibration,
                   selection, active_regions, landmark_state, label_state, current_page,
                   enabled_actions, assertion, probes>>

\* MainWindow.delete_last_ar_point, "Undo" of the region drawn
on_delete_last_ar_point ==
    /\ Invocable("delete_last_point_ar")
    /\ IF state = "SELECTING_AR"
       THEN /\ current_ar_points' =
                   IF Len(current_ar_points) > 0
                   THEN SubSeq(current_ar_points, 1, Len(current_ar_points) - 1)
                   ELSE current_ar_points
            /\ enabled_buttons' = IF undo_disables_confirm(current_ar_points')
                                  THEN enabled_buttons \ {"confirm_ar"} ELSE enabled_buttons
            /\ UNCHANGED <<state, enabled_actions, assertion>>
       ELSE /\ fails("delete_last_ar_point: state == SELECTING_AR")
            /\ UNCHANGED current_ar_points
    /\ notice' = ""
    /\ UNCHANGED <<data_load_mode, channels, loaded_spatialdata, calibration, selection,
                   active_regions, landmark_state, label_state, current_page, probes>>

\* MainWindow.confirm_ar: the drawing becomes an active region and the
\* shapes are filtered again
on_confirm_ar ==
    /\ Invocable("confirm_ar")
    /\ IF state # "SELECTING_AR"
       THEN /\ fails("confirm_ar: state == SELECTING_AR")
            /\ UNCHANGED <<regions, active_shape_ids, selected_shape_ids, shared, edits>>
       ELSE IF ~(Len(current_ar_points) > 2)
       THEN /\ fails("confirm_ar: len(current_ar_points) > 2")
            /\ UNCHANGED <<regions, active_shape_ids, selected_shape_ids, shared, edits>>
       ELSE /\ active_regions' = Append(active_regions, current_ar_points)
            /\ current_ar_points' = <<>>
            /\ filter_by_ar(active_regions')
            /\ back_to_main(landmarks, active_regions', selected_shape_ids')
            /\ UNCHANGED assertion
    /\ notice' = ""
    /\ UNCHANGED <<data_load_mode, channels, loaded_spatialdata, calibration, shapes,
                   landmark_state, label_state, current_page, probes>>

\* MainWindow.toggle_ar_deletion
on_toggle_ar_deletion ==
    /\ Invocable("delete_ar")
    /\ IF state = "MAIN"
       THEN enter_mode("DELETING_AR", {"delete_ar"}) /\ UNCHANGED assertion
       ELSE IF state = "DELETING_AR"
       THEN /\ back_to_main(landmarks, active_regions, selected_shape_ids)
            /\ UNCHANGED assertion
       ELSE fails("toggle_ar_deletion: state == DELETING_AR")
    /\ notice' = ""
    /\ UNCHANGED <<data_load_mode, channels, loaded_spatialdata, calibration, selection,
                   regions, landmark_state, label_state, current_page, probes>>

\* a right click while deleting regions: the first region under the click
\* is removed and the shapes are filtered again
on_try_deleting_ar ==
    /\ assertion = ""
    /\ state = "DELETING_AR"
    /\ \E scene_pos \in Clicks :
          LET hits == {j \in 1..Len(active_regions) :
                          Inside[active_regions[j], scene_pos]}
              idx  == CHOOSE j \in hits : \A h \in hits : j <= h
          IN  /\ hits # {}
              /\ active_regions' = Pop(active_regions, idx - 1)
              /\ filter_by_ar(active_regions')
    /\ notice' = ""
    /\ UNCHANGED <<state, data_load_mode, channels, loaded_spatialdata, calibration,
                   shapes, current_ar_points, landmark_state, label_state, widgets,
                   assertion, probes>>

\* MainWindow.load_ar_from_file: the regions of the file replace those held
\* and the shapes are filtered again; the AssertionError of
\* reset_main_buttons outside MAIN ends in the "Error" box of the handler
on_load_ar_from_file ==
    /\ Invocable("load_ar")
    /\ \/ /\ notice' = ""
          /\ UNCHANGED <<active_regions, active_shape_ids, selected_shape_ids, shared,
                         edits, state, enabled_buttons, enabled_actions>>
       \/ \E r \in {StoredRegion} :
             /\ active_regions' = <<r>>
             /\ filter_by_ar(active_regions')
             /\ IF state = "MAIN"
                THEN /\ back_to_main(landmarks, active_regions', selected_shape_ids')
                     /\ notice' = ""
                ELSE /\ notice' = "Error"
                     /\ UNCHANGED <<state, enabled_buttons, enabled_actions>>
    /\ UNCHANGED <<data_load_mode, channels, loaded_spatialdata, calibration, shapes,
                   current_ar_points, landmark_state, label_state, current_page,
                   assertion, probes>>

\* MainWindow.select_shapes, with the spin box at k; the message boxes of
\* the call are not kept here
on_select_shapes ==
    /\ Invocable("select_shapes")
    /\ \E k \in 0..MaxK, clustering_index \in 0..(clustering_count - 1) :
        \E checked \in (IF clustering_index = 3 THEN SUBSET Range(label_checkboxes) ELSE {{}}) :
        \E sample \in (IF clustering_index = 1 /\ ~takes_all(Len(active_shape_ids), k)
                       THEN Samples(Len(active_shape_ids), k) ELSE {<<>>}) :
        \E r \in {select_shapes_call(k, clustering_index, checked, sample)} :
                /\ selected_shape_ids' = r.selected
                /\ shared' = r.shared
    /\ notice' = ""
    /\ UNCHANGED <<state, data_load_mode, channels, loaded_spatialdata, calibration,
                   shapes, active_shape_ids, edits, regions, landmark_state, label_state,
                   widgets, assertion, probes>>

\* MainWindow.toggle_shape_add
on_toggle_shape_add ==
    /\ Invocable("add_shapes")
    /\ IF state = "MAIN"
       THEN enter_mode("ADDING_SHP", {"add_shapes"}) /\ UNCHANGED assertion
       ELSE IF state = "ADDING_SHP"
       THEN /\ back_to_main(landmarks, active_regions, selected_shape_ids)
            /\ UNCHANGED assertion
       ELSE fails("toggle_shape_add: state == ADDING_SHP")
    /\ notice' = ""
    /\ UNCHANGED <<data_load_mode, channels, loaded_spatialdata, calibration, selection,
                   regions, landmark_state, label_state, current_page, probes>>

\* a right click while adding shapes: the first active shape under the
\* click is appended to selected_shape_ids, in place
on_try_adding_shp ==
    /\ assertion = ""
    /\ state = "ADDING_SHP"
    /\ edits < MaxEdits
    /\ \E scene_pos \in Clicks :
          LET hits == {t \in 1..Len(active_shape_ids) :
                          Inside[shapes[active_shape_ids[t] + 1], scene_pos]}
              first == CHOOSE t \in hits : \A h \in hits : t <= h
          IN  /\ hits # {}
              /\ selected_shape_ids' = Append(selected_shape_ids, active_shape_ids[first])
    /\ active_shape_ids' = IF shared THEN selected_shape_ids' ELSE active_shape_ids
    /\ edits' = edits + 1
    /\ notice' = ""
    /\ UNCHANGED <<state, data_load_mode, channels, loaded_spatialdata, calibration,
                   shapes, shared, regions, landmark_state, label_state, widgets,
                   assertion, probes>>

\* MainWindow.toggle_shape_rem
on_toggle_shape_rem ==
    /\ Invocable("rem_shapes")
    /\ IF state = "MAIN"
       THEN enter_mode("DELETING_SHP", {"rem_shapes"}) /\ UNCHANGED assertion
       ELSE IF state = "DELETING_SHP"
       THEN /\ back_to_main(landmarks, active_regions, selected_shape_ids)
            /\ UNCHANGED assertion
       ELSE fails("toggle_shape_rem: state == DELETING_SHP")
    /\ notice' = ""
    /\ UNCHANGED <<data_load_mode, channels, loaded_spatialdata, calibration, selection,
                   regions, landmark_state, label_state, current_page, probes>>

\* a right click while deleting shapes: the first selected entry under the
\* click is popped from selected_shape_ids, in place
on_try_deleting_shp ==
    /\ assertion = ""
    /\ state = "DELETING_SHP"
    /\ edits < MaxEdits
    /\ \E scene_pos \in Clicks :
          LET hits == {t \in 1..Len(selected_shape_ids) :
                          Inside[shapes[selected_shape_ids[t] + 1], scene_pos]}
              first == CHOOSE t \in hits : \A h \in hits : t <= h
          IN  /\ hits # {}
              /\ selected_shape_ids' = Pop(selected_shape_ids, first - 1)
    /\ active_shape_ids' = IF shared THEN selected_shape_ids' ELSE active_shape_ids
    /\ edits' = edits + 1
    /\ notice' = ""
    /\ UNCHANGED <<state, data_load_mode, channels, loaded_spatialdata, calibration,
                   shapes, shared, regions, landmark_state, label_state, widgets,
                   assertion, probes>>

UiNext ==
    \/ on_add_channel
    \/ on_add_spatialdata
    \/ on_remove_channel
    \/ on_load_shapes
    \/ on_load_calibration
    \/ on_confirm_calibration
    \/ on_goto_second_page
    \/ on_goto_first_page
    \/ on_toggle_landmark_selection
    \/ on_add_lnd_point
    \/ on_delete_last_lnd_point
    \/ on_confirm_landmark
    \/ on_toggle_landmark_deletion
    \/ on_try_deleting_landmark
    \/ on_load_landmarks_from_file
    \/ on_toggle_ar_selection
    \/ on_add_ar_point
    \/ on_delete_last_ar_point
    \/ on_confirm_ar
    \/ on_toggle_ar_deletion
    \/ on_try_deleting_ar
    \/ on_load_ar_from_file
    \/ on_select_shapes
    \/ on_toggle_shape_add
    \/ on_toggle_shape_rem
    \/ on_try_deleting_shp
    \/ on_try_adding_shp

UiSpec == Init /\ [][UiNext]_vars

(***************************************************************************)
(* The main window with cell labels: the handlers that load data, labels   *)
(* and regions, change the page and select shapes, without the drawing and *)
(* editing modes of page 2.                                                *)
(***************************************************************************)
LabelNext ==
    \/ on_add_channel
    \/ on_add_spatialdata
    \/ on_remove_channel
    \/ on_load_shapes
    \/ on_load_labels
    \/ on_load_calibration
    \/ on_confirm_calibration
    \/ on_goto_second_page
    \/ on_goto_first_page
    \/ on_load_ar_from_file
    \/ on_select_shapes

LabelSpec == Init /\ [][LabelNext]_vars

(***************************************************************************)
(* The XML round trip of the IMAGE workflow: the shapes of a DVP XML file  *)
(* are loaded, some are selected, and the selection is exported.  Images   *)
(* are shown at full resolution (MainWindow.scale is 1.0).                 *)
(***************************************************************************)
\* a Shape_n element with two points only
Segment == <<<<5, 5>>, <<6, 6>>>>

\* the DVP XML files a user opens, as the list of their Shape_n elements in
\* stage coordinates: all shapes with four points, and one or two shapes
\* with two points before, between or after them
XmlFiles ==
    {<<Square(0, 0), Square(10, 0), Square(20, 0)>>,
     <<Segment, Square(0, 0), Square(10, 0), Square(20, 0)>>,
     <<Square(0, 0), Segment, Square(10, 0), Square(20, 0)>>,
     <<Square(0, 0), Square(10, 0), Square(20, 0), Segment>>,
     <<Segment, Square(0, 0), Segment, Square(10, 0)>>}

\* ImXML.fxx and ImXML.fyy, the interpolations of ImXML.calibration, for a
\* slide with resolution 1 in an image 200 wide and 100 high
fxx(v) == v + 100

fyy(v) == v + 50

\* "x_px = im_xml.fxx(y); y_px = im_xml.fyy(x)" and QPointF(int(x), int(y))
calibrated(shape) == [j \in 1..Len(shape) |-> <<fxx(shape[j][2]), fyy(shape[j][1])>>]

\* DVPXML.return_shape(index), index counted from 1: the points of Shape_index
return_shape(dvpxml, index) == dvpxml[index]

\* the shapes load_shapes_and_load_calibrate appends to state.shapes: those
\* of Shape_1 .. Shape_n with at least three points, calibrated, in order
xml_shapes(dvpxml) ==
    LET all_shapes == SelectSeq([i \in 1..Len(dvpxml) |-> return_shape(dvpxml, i)],
                                LAMBDA shape : Len(shape) >= 3)
    IN  [t \in 1..Len(all_shapes) |-> calibrated(all_shapes[t])]

\* export_xml(path, indices, dvpxml): ShapeCount and the Shape_1 ..
\* Shape_ShapeCount elements written
export_xml(indices, dvpxml) ==
    [ShapeCount |-> Len(indices),
     shapes |-> [new_idx \in 1..Len(indices) |-> return_shape(dvpxml, indices[new_idx] + 1)]]

\* the CellID column of the CSV file
export_csv(indices) == [t \in 1..Len(indices) |-> indices[t] + 1]

\* the lists of at most MaxK different shape indices below n
Selections(n) ==
    {ids \in UNION {[1..len -> 0..(n - 1)] : len \in 0..MaxK} : NoDup(ids)}

\* load_shapes_and_load_calibrate on one of the XML files
xml_load_shapes ==
    /\ \E dvpxml \in XmlFiles :
          /\ xml_file' = dvpxml
          /\ shapes' = xml_shapes(dvpxml)
    /\ active_shape_ids' = <<>>
    /\ selected_shape_ids' = <<>>
    /\ shared' = FALSE
    /\ edits' = 0
    /\ exported' = <<>>
    /\ UNCHANGED <<state, regions, landmark_state, label_state, calibration,
                   data_load_mode, channels, loaded_spatialdata, widgets, assertion,
                   notice, call, polygons, measured>>

\* the selection the handlers of page 2 leave: some of the loaded shapes
xml_select ==
    /\ shapes # <<>>
    /\ \E ids \in Selections(Len(shapes)) :
          /\ ids # selected_shape_ids
          /\ selected_shape_ids' = ids
    /\ shared' = FALSE
    /\ exported' = <<>>
    /\ UNCHANGED <<state, shapes, active_shape_ids, edits, regions, landmark_state,
                   label_state, calibration, data_load_mode, channels,
                   loaded_spatialdata, widgets, assertion, notice, call, polygons,
                   measured, xml_file>>

\* MainWindow.export_selected_shapes: nothing is written without a
\* selection; else the XML file and the CSV file
xml_export_selected_shapes ==
    /\ xml_file # <<>>
    /\ selected_shape_ids # <<>>
    /\ exported' = <<[xml |-> export_xml(selected_shape_ids, xml_file),
                      csv |-> export_csv(selected_shape_ids)]>>
    /\ UNCHANGED <<state, selection, regions, landmark_state, label_state, calibration,
                   data_load_mode, channels, loaded_spatialdata, widgets, assertion,
                   notice, call, polygons, measured, xml_file>>

ExportNext ==
    \/ xml_load_shapes
    \/ xml_select
    \/ xml_export_selected_shapes

ExportSpec == Init /\ [][ExportNext]_vars


(***************************************************************************)
(* Properties of the selection.  They are stated on the state right after  *)
(* a select_shapes call: call holds the call's inputs, locals and message  *)
(* boxes, selected_shape_ids its result.                                   *)
(***************************************************************************)
Called == call.op = "select_shapes"

\* the call ended in an error: an exception, or an "Error" box and a return
Failed ==
    \/ call.raised # ""
    \/ call.warnings \cap {"no_labels", "no_shapes_with_labels"} # {}

\* the call went through the "<= k" branch, which runs no selector
TookAll == Called /\ ~Failed /\ call.selected_idss = <<>>

\* the call went through a per-group branch (k per region, k per label)
PerGroup == Called /\ ~Failed /\ ~TookAll /\ call.clustering_index \in {2, 3}

\* the call went through a flat branch (k-center over the union, random)
Flat == Called /\ ~Failed /\ ~TookAll /\ call.clustering_index \in {0, 1}

\* the indices, into the candidate list, that a flat call returned
ResultIndices ==
    IF TookAll THEN [i \in 1..Len(call.cands) |-> i - 1] ELSE call.selected_idss[1]

Min(a, b) == IF a < b THEN a ELSE b

\* C1 - Count correctness.  A flat k-center call (clustering index 0) over n
\* candidates leaves exactly k selected shapes when k <= n, and exactly n
\* with the "Could not select" warning shown when k > n.
C1_CountCorrectness ==
    (Called /\ call.clustering_index = 0) =>
        LET n == Len(call.cands)
        IN  /\ call.k <= n => Len(selected_shape_ids) = call.k
            /\ call.k > n => /\ Len(selected_shape_ids) = n
                             /\ "undersupply" \in call.warnings

C1_Witness ==
    /\ Called /\ call.clustering_index = 0
    /\ Len(call.cands) = 5 /\ call.k = 3
    /\ Len(selected_shape_ids) = 3

\* C2 - Uniqueness and range, as claimed.  After every call that did not
\* fail, the indices each selector run returned are pairwise distinct and lie
\* in [0, n) for its candidate list, and selected_shape_ids holds pairwise
\* distinct indices of candidate shapes.
C2_UniqueInRange ==
    (Called /\ ~Failed) =>
        /\ \A g \in DOMAIN call.selected_idss :
              /\ NoDup(call.selected_idss[g])
              /\ Range(call.selected_idss[g]) \subseteq 0..(Len(call.point_ids[g]) - 1)
        /\ NoDup(selected_shape_ids)
        /\ Range(selected_shape_ids) \subseteq Range(call.cands)

\* C3 - Greedy farthest-point order.  After a flat k-center call with
\* 1 <= k < n the returned indices start with 0, every later one is the
\* unchosen candidate farthest from the ones chosen before it, the lowest
\* index among ties, and selected_shape_ids lists the shapes in that order;
\* five unit squares at x = 0, 10, 20, 30, 40 with k = 3 give [0, 4, 2].
C3_GreedyOrder ==
    (Flat /\ call.clustering_index = 0 /\ call.k >= 1) =>
        LET sel == call.selected_idss[1]
            polys == polys_of(call.cands)
            n == Len(polys)
            d(j, t) == MinOfSeq([u \in 1..(t - 1) |->
                                    DistanceMatrix[polys[j + 1], polys[sel[u] + 1]]])
        IN  /\ Len(sel) = call.k
            /\ sel[1] = 0
            /\ \A t \in 2..Len(sel) :
                  /\ sel[t] \in (0..(n - 1)) \ {sel[u] : u \in 1..(t - 1)}
                  /\ \A j \in (0..(n - 1)) \ {sel[u] : u \in 1..(t - 1)} :
                        /\ ~LessQ(d(sel[t], t), d(j, t))
                        /\ EqQ(d(sel[t], t), d(j, t)) => sel[t] <= j
            /\ selected_shape_ids = [t \in 1..Len(sel) |-> call.cands[sel[t] + 1]]
            /\ (shapes = LineLayout /\ call.cands = <<0, 1, 2, 3, 4>> /\ call.k = 3)
                  => selected_shape_ids = <<0, 4, 2>>

C3_Witness ==
    /\ Flat /\ call.clustering_index = 0
    /\ shapes = LineLayout /\ call.cands = <<0, 1, 2, 3, 4>> /\ call.k = 3
    /\ selected_shape_ids = <<0, 4, 2>>

\* C4 - With k >= n (k = n included) a call that does not fail selects all
\* candidates, in input order, and shows the "Could not select" warning.
C4_AllWhenKAtLeastN ==
    (Called /\ ~Failed /\ call.k >= Len(call.cands)) =>
        /\ selected_shape_ids = call.cands
        /\ "undersupply" \in call.warnings

C4_Witness ==
    /\ Called /\ ~Failed
    /\ call.clustering_index = 0
    /\ call.k = 3 /\ Len(call.cands) = 3
    /\ selected_shape_ids = call.cands

\* what a flat k-center selection over the shapes ids alone would select
AloneResult(ids, k) == map_back(ids, select_k_center(polys_of(ids), k))

C7_UndersupplyIffFewer ==
    (Called /\ ~Failed) =>
        LET warned == call.warnings \cap
                        {"undersupply", "undersupply_per_AR", "undersupply_per_label"} # {}
            groups == IF call.clustering_index = 2 THEN point_ids_per_region(call.cands)
                      ELSE IF call.clustering_index = 3
                           THEN point_ids_per_label(call.cands, label_checkboxes)
                      ELSE <<call.cands>>
        IN  warned <=> \E g \in DOMAIN groups : Len(groups[g]) < call.k

\* C8 - Empty input fails, as claimed.  A call with k > 0 and no candidate
\* ends in an error, and a call with candidates never does.
C8_EmptyInputFails ==
    Called =>
        /\ (call.cands = <<>> /\ call.k > 0) => Failed
        /\ call.cands # <<>> => ~Failed

C10_SeedInvariant ==
    (Called /\ call.clustering_index = 0 /\ call.k >= 1) =>
        /\ ~Failed
        /\ 0 \in Range(ResultIndices)
        /\ call.cands # <<>> /\ call.cands[1] \in Range(selected_shape_ids)

\* C11 - Selection calls leave their candidate list alone, as claimed.  A
\* manual edit of the selection (try_adding_shp, try_deleting_shp) changes
\* selected_shape_ids only: active_shape_ids is the same list before and
\* after the click.
C11_EditsLeaveCandidates ==
    [][(try_adding_shp \/ try_deleting_shp) => active_shape_ids' = active_shape_ids]_vars

\* the squared polygon distance between shapes i and j of the loaded layout
ShapeDistance(i, j) == DistanceMatrix[shapes[i + 1], shapes[j + 1]]

\* the largest and the smallest of a non-empty set of squared distances
MaxOfSet(Q) == CHOOSE q \in Q : \A p \in Q : ~LessQ(q, p)

MinOfSet(Q) == CHOOSE q \in Q : \A p \in Q : ~LessQ(p, q)

\* the squared covering radius of the shapes `chosen` over the candidate
\* shapes cands: the largest distance from a candidate to its nearest chosen shape
CoveringRadius(cands, chosen) ==
    IF cands = <<>> THEN <<0, 1>>
    ELSE MaxOfSet({MinOfSeq([t \in 1..Len(chosen) |-> ShapeDistance(cands[c], chosen[t])])
                      : c \in 1..Len(cands)})

\* the smallest squared covering radius any k positions of cands achieve
OptimalRadius(cands, k) ==
    MinOfSet({CoveringRadius(cands, [t \in 1..k |->
                                cands[CHOOSE p \in T : Cardinality({q \in T : q < p}) = t - 1]])
                 : T \in {T \in SUBSET (1..Len(cands)) : Cardinality(T) = k}})

\* r <= 2 * o for the squared distances r2 and o2
AtMostTwice(r2, o2) == ~LessQ(<<4 * o2[1], o2[2]>>, r2)

\* sqrt(x) <= sqrt(y) + sqrt(z) for the squared distances x, y and z
TriangleHolds(x, y, z) ==
    LET xs == x[1] * y[2] * z[2]
        ys == y[1] * x[2] * z[2]
        zs == z[1] * x[2] * y[2]
        X  == xs - ys - zs
    IN  X <= 0 \/ X * X <= 4 * ys * zs

\* the polygon distance obeys the triangle inequality on every three shapes of cands
IsMetricOn(cands) ==
    \A a, b, c \in Range(cands) :
        TriangleHolds(ShapeDistance(a, c), ShapeDistance(a, b), ShapeDistance(b, c))

\* C12 - 2-approximation, as claimed.  After a flat k-center call with
\* 1 <= k <= n the covering radius of the selected shapes is at most twice
\* the smallest covering radius of any k candidates.
C12_TwoApproximation ==
    (Called /\ ~Failed /\ call.clustering_index = 0
       /\ call.k >= 1 /\ call.k <= Len(call.cands)) =>
        AtMostTwice(CoveringRadius(call.cands, selected_shape_ids),
                    OptimalRadius(call.cands, call.k))

\* C12, amended - the bound holds whenever the polygon distance obeys the
\* triangle inequality on the candidates (it does for points; between
\* extended polygons it need not).
C12_TwoApproximationMetric ==
    (Called /\ ~Failed /\ call.clustering_index = 0
       /\ call.k >= 1 /\ call.k <= Len(call.cands) /\ IsMetricOn(call.cands)) =>
        AtMostTwice(CoveringRadius(call.cands, selected_shape_ids),
                    OptimalRadius(call.cands, call.k))

C12_Witness ==
    /\ Flat /\ call.clustering_index = 0
    /\ Len(call.cands) = 3 /\ NoDup(call.cands) /\ call.k = 2
    /\ IsMetricOn(call.cands)
    /\ LessQ(<<0, 1>>, CoveringRadius(call.cands, selected_shape_ids))
    /\ AtMostTwice(CoveringRadius(call.cands, selected_shape_ids),
                   OptimalRadius(call.cands, call.k))

\* twice the signed area of the triangle o, a, b
Cross(o, a, b) == (a[1] - o[1]) * (b[2] - o[2]) - (a[2] - o[2]) * (b[1] - o[1])

Between(x, u, v) == (u <= x /\ x <= v) \/ (v <= x /\ x <= u)

\* the point p lies on the closed segment [a, b]
OnSegment(p, a, b) ==
    Cross(a, b, p) = 0 /\ Between(p[1], a[1], b[1]) /\ Between(p[2], a[2], b[2])

\* the closed segments [a, b] and [c, d] have a point in common
SegmentsIntersect(a, b, c, d) ==
    \/ /\ (Cross(c, d, a) > 0 /\ Cross(c, d, b) < 0) \/ (Cross(c, d, a) < 0 /\ Cross(c, d, b) > 0)
       /\ (Cross(a, b, c) > 0 /\ Cross(a, b, d) < 0) \/ (Cross(a, b, c) < 0 /\ Cross(a, b, d) > 0)
    \/ OnSegment(a, c, d) \/ OnSegment(b, c, d)
    \/ OnSegment(c, a, b) \/ OnSegment(d, a, b)

Edges(P) == {<<P[i], P[(i % Len(P)) + 1]>> : i \in 1..Len(P)}

\* the polygons A and B, as closed regions, have a point in common: their
\* boundaries meet, or one lies inside the other
TouchOrOverlap(A, B) ==
    \/ \E e \in Edges(A), f \in Edges(B) : SegmentsIntersect(e[1], e[2], f[1], f[2])
    \/ containsPoint(B, <<A[1][1], A[1][2], 1>>)
    \/ containsPoint(A, <<B[1][1], B[1][2], 1>>)

\* some vertex of A lies on the boundary of B
VertexOnBoundary(A, B) ==
    \E i \in 1..Len(A), f \in Edges(B) : OnSegment(A[i], f[1], f[2])

IsZero(q) == q[1] = 0

\* C13 - Zero distance iff touching or overlapping, as claimed.  The
\* distance measured between two polygons is 0 exactly when they touch or
\* overlap, and strictly positive otherwise.
C13_ZeroIffTouchOrOverlap ==
    measured # None =>
        /\ IsZero(measured[1]) <=> TouchOrOverlap(polygons[1], polygons[2])
        /\ ~TouchOrOverlap(polygons[1], polygons[2]) => LessQ(<<0, 1>>, measured[1])

\* C13, amended - the distance is never negative; it is 0 exactly when a
\* vertex of one polygon lies on the boundary of the other, so a zero
\* distance implies that the polygons touch or overlap and polygons apart
\* are at a positive distance.
C13_ZeroIffVertexOnBoundary ==
    measured # None =>
        /\ ~LessQ(measured[1], <<0, 1>>)
        /\ IsZero(measured[1]) <=> \/ VertexOnBoundary(polygons[1], polygons[2])
                                   \/ VertexOnBoundary(polygons[2], polygons[1])
        /\ IsZero(measured[1]) => TouchOrOverlap(polygons[1], polygons[2])
        /\ ~TouchOrOverlap(polygons[1], polygons[2]) => LessQ(<<0, 1>>, measured[1])

C13_Witness ==
    /\ measured # None
    /\ polygons = <<Rect(0, 0, 4, 4), <<<<4, 2>>, <<6, 1>>, <<6, 3>>>>>>
    /\ IsZero(measured[1])
    /\ ~VertexOnBoundary(polygons[1], polygons[2])
    /\ VertexOnBoundary(polygons[2], polygons[1])

\* C14 - Minimum pairwise diagnostic.  After a call that reached the
\* diagnostic, polygon_mindist of the selected polygons is the least
\* distance over all pairs of distinct positions and +infinity for fewer
\* than two polygons; the "contiguous" warning is shown exactly when at
\* least two shapes are selected and some pair is closer than 2.0.
C14_MinPairwiseDiagnostic ==
    (Called /\ ~Failed) =>
        LET n     == Len(selected_shape_ids)
            pairs == {<<i, j>> \in (1..n) \X (1..n) : i < j}
            d(pr) == ShapeDistance(selected_shape_ids[pr[1]], selected_shape_ids[pr[2]])
            mind  == polygon_mindist(polys_of(selected_shape_ids))
        IN  /\ n < 2 => mind = Infinity /\ "contiguous" \notin call.warnings
            /\ n >= 2 => /\ \A pr \in pairs : ~LessQ(d(pr), mind)
                         /\ \E pr \in pairs : EqQ(d(pr), mind)
            /\ "contiguous" \in call.warnings
                  <=> (n >= 2 /\ \E pr \in pairs : LessQ(d(pr), <<4, 1>>))

\* a call that warns, and one that selects far shapes and does not
C14_Witness ==
    /\ Called /\ ~Failed
    /\ Len(selected_shape_ids) = 3
    /\ "contiguous" \in call.warnings
    /\ EqQ(ShapeDistance(selected_shape_ids[1], selected_shape_ids[2]), <<0, 1>>)
    /\ LessQ(<<4, 1>>, ShapeDistance(selected_shape_ids[1], selected_shape_ids[3]))

\* the entry a manual delete click took out of the selection, if the step
\* from the current state to the next one is such a removal
Removed ==
    {selected_shape_ids[t] : t \in {u \in 1..Len(selected_shape_ids) :
                                       selected_shape_ids' = Pop(selected_shape_ids, u - 1)}}

\* C18 - The manual selection stays duplicate-free, as claimed: no step
\* leaves an index twice in selected_shape_ids, a try_adding_shp step never
\* appends a shape that is already selected, and the shape a try_deleting_shp
\* step removes is not selected afterwards.
C18_SelectionDuplicateFree ==
    [][/\ NoDup(selected_shape_ids')
       /\ try_adding_shp =>
              selected_shape_ids'[Len(selected_shape_ids')] \notin Range(selected_shape_ids)
       /\ try_deleting_shp => \A x \in Removed : x \notin Range(selected_shape_ids')]_vars

\* C19 - active_shape_ids is, in every reachable state, exactly the ascending
\* duplicate-free list of the loaded shapes whose centroid lies in one of the
\* current active regions, as claimed.
C19_ActiveIsFilter ==
    active_shape_ids = shapes_in_regions(shapes, active_regions)

\* everything a handler of the window can change, but for the message box shown
all_but_notice ==
    <<state, selection, regions, landmark_state, label_state, calibration,
      data_load_mode, channels, loaded_spatialdata, widgets, assertion>>

\* C15 - The data load mode is irreversible: once it is IMAGE or SPATIALDATA
\* no step changes it, whatever add_channel, add_spatialdata (reloads
\* included) and remove_channel steps follow; add_channel in SPATIALDATA mode
\* and add_spatialdata in IMAGE mode change nothing.
C15_ModeIrreversible ==
    [][/\ data_load_mode # "NONE" => data_load_mode' = data_load_mode
       /\ (on_add_channel /\ data_load_mode = "SPATIALDATA") => UNCHANGED all_but_notice
       /\ (on_add_spatialdata /\ data_load_mode = "IMAGE") => UNCHANGED all_but_notice]_vars

\* a store was loaded, its channel removed, and "Add channel", enabled again
\* on the home page, was refused
C15_Witness ==
    /\ data_load_mode = "SPATIALDATA"
    /\ loaded_spatialdata
    /\ channels = 0
    /\ state = "HOME"
    /\ notice = "Wrong Workflow"

\* the assert statements on AppState in the toggle handlers and in the
\* undo-point and confirm handlers
AppStateAssertions ==
    {"toggle_landmark_selection: state == SELECTING_LND",
     "toggle_landmark_deletion: state == DELETING_LND",
     "toggle_ar_selection: state == SELECTING_AR",
     "toggle_ar_deletion: state == DELETING_AR",
     "toggle_shape_add: state == ADDING_SHP",
     "toggle_shape_rem: state == DELETING_SHP",
     "delete_last_lnd_point: state == SELECTING_LND",
     "confirm_landmark: state == SELECTING_LND",
     "delete_last_ar_point: state == SELECTING_AR",
     "confirm_ar: state == SELECTING_AR"}

\* C16 - No AppState assertion fails, as claimed: whatever enabled buttons,
\* enabled menu actions and right clicks a user goes through, a toggle
\* handler runs in MAIN or in its own mode only, and the point, undo and
\* confirm handlers in their SELECTING state only.
C16_NoAppStateAssertionFails ==
    assertion \notin AppStateAssertions

\* the states of page 2 a toggle handler enters
Modes ==
    {"SELECTING_LND", "DELETING_LND", "SELECTING_AR", "DELETING_AR", "ADDING_SHP",
     "DELETING_SHP"}

\* a step that runs reset_home_buttons, enable_adv_home_buttons,
\* reset_main_buttons or the mode-entering branch of a toggle handler, or
\* that changes the page
ButtonOperation ==
    \/ on_remove_channel /\ channels' = 0
    \/ on_add_channel /\ channels' # channels
    \/ on_add_spatialdata /\ notice' = "SpatialData Loaded"
    \/ state = "MAIN" /\ state' \in Modes
    \/ state \in Modes /\ state' = "MAIN"
    \/ current_page' # current_page

\* C17 - Menu actions mirror the buttons, as claimed: after every operation
\* that enables or disables buttons (reset_home_buttons,
\* enable_adv_home_buttons in either workflow, reset_main_buttons, a toggle
\* entering its mode, a page change) each menu action is enabled iff its page
\* is the current page and its mirrored button is enabled.
C17_MenuMirrorsButtons ==
    [][ButtonOperation =>
           enabled_actions' = sync_menu_actions(current_page', enabled_buttons')]_vars

\* C20 - Every selected shape is an active shape, as claimed: in every
\* reachable state each index in selected_shape_ids occurs in
\* active_shape_ids and is a valid index into shapes, after region edits,
\* automatic selections, manual add/delete, shape reloads and SpatialData
\* loads with stored annotations.
C20_SelectedAreActive ==
    \A i \in Range(selected_shape_ids) :
        /\ i \in Range(active_shape_ids)
        /\ 0 <= i /\ i < Len(shapes)

\* C21 - At most two landmarks exist in every reachable state, as claimed:
\* len(landmarks) <= 2 after interactive additions and deletions, landmark
\* file loads and SpatialData loads.
C21_AtMostTwoLandmarks ==
    Len(landmarks) <= 2

\* the polygon a confirm step appended to a list of landmarks or regions
Confirmed(before, after) ==
    IF Len(after) = Len(before) + 1 THEN {after[Len(after)]} ELSE {}

\* C22 - While a landmark (resp. an active region) is being drawn, its
\* Confirm button is enabled iff the drawing has at least 3 points, after
\* every step, add-point and undo-point included; so the length assertion of
\* confirm_landmark and confirm_ar never fails, every polygon they confirm
\* has at least 3 vertices, and the drawing is empty whenever the state is
\* not the matching SELECTING state.
C22_ConfirmIffThreePoints ==
    [][/\ state' = "SELECTING_LND" =>
              ("confirm_lnd" \in enabled_buttons' <=> Len(current_lnd_points') >= 3)
       /\ state' = "SELECTING_AR" =>
              ("confirm_ar" \in enabled_buttons' <=> Len(current_ar_points') >= 3)
       /\ assertion' \notin {"confirm_landmark: len(current_lnd_points) > 2",
                             "confirm_ar: len(current_ar_points) > 2"}
       /\ on_confirm_landmark => \A lnd \in Confirmed(landmarks, landmarks') : Len(lnd) >= 3
       /\ on_confirm_ar => \A ar \in Confirmed(active_regions, active_regions') : Len(ar) >= 3
       /\ state' # "SELECTING_LND" => current_lnd_points' = <<>>
       /\ state' # "SELECTING_AR" => current_ar_points' = <<>>]_vars

\* a landmark was drawn and confirmed, and a region is being drawn with two
\* points left after an undo or before the third click: Confirm is disabled
C22_Witness ==
    /\ state = "SELECTING_AR"
    /\ Len(current_ar_points) = 2
    /\ "confirm_ar" \notin enabled_buttons
    /\ Len(landmarks) = 1
    /\ current_lnd_points = <<>>

\* how often shape i occurs in a list of shape indices
Occurrences(i, ids) == Cardinality({t \in 1..Len(ids) : ids[t] = i})

\* C23 - In "k per region" mode the groups handed to the per-group selector
\* form a partition of the candidates, as claimed: the assert on
\* is_contained never fails, and every candidate shape occurs once, in the
\* group of the lowest-index active region holding its centroid and in no
\* other.
C23_GroupsPartitionCandidates ==
    [][(select_shapes /\ call'.clustering_index = 2
                      /\ ~takes_all(Len(call'.cands), call'.k)) =>
           /\ call'.raised # "AssertionError"
           /\ Len(call'.point_ids) = Len(active_regions)
           /\ Range(Concat(call'.point_ids)) = Range(call'.cands)
           /\ \A i \in Range(call'.cands) :
                  /\ is_contained(i) >= 0
                  /\ Occurrences(i, call'.point_ids[is_contained(i) + 1]) = 1
                  /\ Occurrences(i, Concat(call'.point_ids)) = 1]_vars

\* C24 - The "Select k per label" entry of the combo box and the label
\* checkboxes exist iff cell labels are loaded (cell_labels is not None), as
\* claimed, in every reachable state: after loading and deleting labels and
\* after a loaded SpatialData store is replaced; so a call in mode 3 with
\* checked labels never reads a missing label table.
C24_LabelModeIffLabels ==
    /\ clustering_count = 4 <=> cell_labels # None
    /\ label_checkboxes # <<>> <=> cell_labels # None

\* C25 - When fewer than k candidates are available, select_shapes selects
\* all of them and the undersupply warning reports the number of shapes
\* actually selected, the length of the resulting selected_shape_ids, as
\* claimed, in every mode, label-filtered selection included.
C25_UndersupplyReportsSelected ==
    (Called /\ ~Failed /\ Len(call.cands) < call.k) =>
        /\ selected_shape_ids = call.cands
        /\ "undersupply" \in call.warnings
        /\ call.reported = Len(selected_shape_ids)

\* the buttons of page 1 that belong to the IMAGE workflow
ImageWorkflowButtons ==
    {"add_channel", "load_shapes", "load_calibration", "manual_calibration",
     "confirm_calibration"}

\* C26 - Buttons of the other workflow stay disabled once a workflow is
\* chosen, as claimed: in every reachable state in the IMAGE workflow the
\* "Add spatial data" button is disabled, and in the SPATIALDATA workflow
\* the add-channel, load-shapes and calibration buttons are disabled, also
\* after all channels have been removed.
C26_OtherWorkflowDisabled ==
    /\ data_load_mode = "IMAGE" => "add_spatialdata" \notin enabled_buttons
    /\ data_load_mode = "SPATIALDATA" => enabled_buttons \cap ImageWorkflowButtons = {}

\* C27 - XML export writes exactly the selected shapes, as claimed: for
\* every selected index i the shape written (Shape_{i+1} of the loaded XML)
\* and the CellID i+1 of the CSV denote the source shape displayed as
\* state.shapes[i], also for files in which some shapes have fewer than 3
\* points; ShapeCount is the number of selected indices and the shapes are
\* written in selection order.
C27_ExportWritesSelected ==
    exported # <<>> =>
        LET xml == exported[1].xml
            csv == exported[1].csv
        IN  /\ xml.ShapeCount = Len(selected_shape_ids)
            /\ Len(xml.shapes) = xml.ShapeCount
            /\ Len(csv) = xml.ShapeCount
            /\ \A t \in 1..Len(selected_shape_ids) :
                   /\ calibrated(xml.shapes[t]) = shapes[selected_shape_ids[t] + 1]
                   /\ csv[t] = selected_shape_ids[t] + 1
                   /\ calibrated(return_shape(xml_file, csv[t]))
                          = shapes[selected_shape_ids[t] + 1]

====
